---- MODULE Spec2Model ----
(***************************************************************************)
(* Model of the fflonk prover of backend/fflonk/bn254/prove.go: the seven  *)
(* stages Prove starts in an errgroup, their helper goroutines, the        *)
(* one-shot completion channels and the shared cancellation context,       *)
(* together with the sparse-R1CS solver of                                 *)
(* internal/backend/bn254/cs/r1cs_sparse.go that decides whether the       *)
(* solve stage fails.                                                      *)
(***************************************************************************)
EXTENDS Integers, Sequences, FiniteSets, TLC

(***************************************************************************)
(* Scalar field.  fr.Element is a 254-bit prime field; the model uses a    *)
(* toy prime modulus and the same operations.  193 - 1 = 64 * 3, so the    *)
(* field has the roots of unity of the fft domains of up to 64 points.     *)
(***************************************************************************)
FieldP == 193

\* largest witness entry the inputs are drawn from
MaxVal == 2

Fr == 0 .. (FieldP - 1)

FrAdd(a, b) == (a + b) % FieldP

FrMul(a, b) == (a * b) % FieldP

FrNeg(a) == (FieldP - (a % FieldP)) % FieldP

\* fr.Element.Inverse: the inverse of 0 is 0
FrInv(a) == IF a % FieldP = 0 THEN 0
            ELSE CHOOSE b \in Fr : (a * b) % FieldP = 1

(***************************************************************************)
(* Sparse R1CS: terms, coefficient table and the circuit x*x == y with y   *)
(* public (wire 0), x secret (wire 1) and one internal wire v (wire 2):    *)
(* constraint  x*x - v = 0  (solved for v), assertion  v - y = 0.          *)
(***************************************************************************)
CoeffIdZero == 0

CoeffIdOne == 1

CoeffIdTwo == 2

CoeffIdMinusOne == 3

\* cs.Coefficients, indexed by coefficient id (0-based in the source)
Coefficients == << 0, 1, 2, FieldP - 1 >>

Coeff(cID) == Coefficients[cID + 1]

Term(cID, vID) == [cID |-> cID, vID |-> vID]

NbPublicVariables == 1

NbSecretVariables == 1

NbInternalVariables == 1

Constraints ==
    << [L |-> Term(CoeffIdZero, 0), R |-> Term(CoeffIdZero, 0),
        M |-> << Term(CoeffIdOne, 1), Term(CoeffIdOne, 1) >>,
        O |-> Term(CoeffIdMinusOne, 2), K |-> CoeffIdZero] >>

Assertions ==
    << [L |-> Term(CoeffIdOne, 2), R |-> Term(CoeffIdMinusOne, 0),
        M |-> << Term(CoeffIdZero, 0), Term(CoeffIdZero, 0) >>,
        O |-> Term(CoeffIdZero, 0), K |-> CoeffIdZero] >>

\* value of wire vID in a 0-based solution vector
Val(solution, vID) == solution[vID + 1]

\* computeTerm computes coef*variable
computeTerm(t, solution) ==
    CASE t.cID = CoeffIdZero     -> 0
      [] t.cID = CoeffIdOne      -> Val(solution, t.vID)
      [] t.cID = CoeffIdTwo      -> FrAdd(Val(solution, t.vID), Val(solution, t.vID))
      [] t.cID = CoeffIdMinusOne -> FrNeg(Val(solution, t.vID))
      [] OTHER                   -> FrMul(Coeff(t.cID), Val(solution, t.vID))

\* returns 0 if the variable to solve is L, 1 if it's R, 2 if it's O
findUnsolvedVariable(c, wireInstantiated) ==
    IF c.L.cID # 0 /\ ~wireInstantiated[c.L.vID + 1] THEN 0
    ELSE IF c.M[1].cID # 0 /\ ~wireInstantiated[c.M[1].vID + 1] THEN 0
    ELSE IF c.R.cID # 0 /\ ~wireInstantiated[c.R.vID + 1] THEN 1
    ELSE IF c.M[2].cID # 0 /\ ~wireInstantiated[c.M[2].vID + 1] THEN 1
    ELSE 2

\* coefficientsNegInv[cID] = -(1/Coefficients[cID])
coefficientsNegInv(cID) == FrNeg(FrInv(Coeff(cID)))

\* solveConstraint, SingleOutput solver: the pair <<solution, wireInstantiated>>
\* after solving c
solveConstraint(c, solution, wireInstantiated) ==
    LET lro == findUnsolvedVariable(c, wireInstantiated)
        u1  == Coeff(c.L.cID)
        u2  == Coeff(c.R.cID)
    IN  IF lro = 0
        THEN LET u3  == FrMul(Coeff(c.M[1].cID), Coeff(c.M[2].cID))
                 den == FrAdd(FrMul(u3, Val(solution, c.R.vID)), u1)
                 num == FrAdd(FrAdd(computeTerm(c.R, solution),
                                    computeTerm(c.O, solution)), Coeff(c.K))
             IN  << [solution EXCEPT ![c.L.vID + 1] = FrNeg(FrMul(num, FrInv(den)))],
                    [wireInstantiated EXCEPT ![c.L.vID + 1] = TRUE] >>
        ELSE IF lro = 1
        THEN LET u3  == FrMul(Coeff(c.M[1].vID), Coeff(c.M[2].vID))
                 den == FrAdd(FrMul(u3, Val(solution, c.L.vID)), u2)
                 num == FrAdd(FrAdd(computeTerm(c.L, solution),
                                    computeTerm(c.O, solution)), Coeff(c.K))
             IN  << [solution EXCEPT ![c.L.vID + 1] = FrNeg(FrMul(num, FrInv(den)))],
                    [wireInstantiated EXCEPT ![c.L.vID + 1] = TRUE] >>
        ELSE LET l  == computeTerm(c.L, solution)
                 r  == computeTerm(c.R, solution)
                 m0 == computeTerm(c.M[1], solution)
                 m1 == computeTerm(c.M[2], solution)
                 o  == FrMul(FrAdd(FrAdd(FrAdd(FrMul(m0, m1), l), r), Coeff(c.K)),
                             coefficientsNegInv(c.O.cID))
             IN  << [solution EXCEPT ![c.O.vID + 1] = o],
                    [wireInstantiated EXCEPT ![c.O.vID + 1] = TRUE] >>

\* a mutated check that accepts every constraint
checkConstraintAccepting(c, solution) == TRUE

\* checkConstraint verifies that the constraint holds:
\* l + r + (m0 * m1) + o + c.K == 0
checkConstraint(c, solution) ==
    LET l  == computeTerm(c.L, solution)
        r  == computeTerm(c.R, solution)
        m0 == computeTerm(c.M[1], solution)
        m1 == computeTerm(c.M[2], solution)
        o  == computeTerm(c.O, solution)
    IN  FrAdd(FrAdd(FrAdd(FrAdd(FrMul(m0, m1), l), r), o), Coeff(c.K)) = 0

ErrNone == "none"

ErrUnsatisfiedConstraint == "unsatisfied constraint"

ErrWitnessSize == "invalid witness size"

ErrInvalidWitness == "invalid witness"

errContextDone == "context done"

ErrCollaborator == "collaborator error"

RECURSIVE solveLoop(_, _, _)
\* the constraint loop of Solve from constraint i on: the error it returns
solveLoop(i, solution, wireInstantiated) ==
    IF i > Len(Constraints) THEN << ErrNone, solution >>
    ELSE LET s == solveConstraint(Constraints[i], solution, wireInstantiated)
         IN  IF ~checkConstraint(Constraints[i], s[1])
             THEN << ErrUnsatisfiedConstraint, s[1] >>
             ELSE solveLoop(i + 1, s[1], s[2])

RECURSIVE assertLoop(_, _)
\* the assertion loop of Solve from assertion i on
assertLoop(i, solution) ==
    IF i > Len(Assertions) THEN ErrNone
    ELSE IF ~checkConstraint(Assertions[i], solution)
         THEN ErrUnsatisfiedConstraint
         ELSE assertLoop(i + 1, solution)

\* Solve: the error returned for a witness (a record with the vector's
\* dynamic type and its entries)
Solve(w) ==
    LET expectedWitnessSize == NbPublicVariables + NbSecretVariables
        nbVariables == NbInternalVariables + NbSecretVariables + NbPublicVariables
        solution0 == [i \in 1 .. nbVariables |->
                        IF i <= Len(w.vals) THEN w.vals[i] ELSE 0]
        inst0 == [i \in 1 .. nbVariables |-> i <= Len(w.vals)]
    IN  IF ~w.typeOK THEN ErrInvalidWitness
        ELSE IF Len(w.vals) # expectedWitnessSize THEN ErrWitnessSize
        ELSE LET r == solveLoop(1, solution0, inst0)
             IN  IF r[1] # ErrNone THEN r[1] ELSE assertLoop(1, r[2])


(***************************************************************************)
(* Prover state.                                                           *)
(***************************************************************************)
VARIABLES
    witness,    \* fullWitness: [typeOK, vals]
    pc,         \* position of every stage and helper goroutine
    closedBy,   \* for each completion channel, the goroutine that closed it
    cancelled,  \* ctx.Done() of the errgroup context is closed
    gErr,       \* the error the errgroup recorded
    stageErr,   \* the value each stage returned
    firstErr,   \* the error of the stage that returned an error first
    x,          \* instance.x: the working polynomials, by slot
    bp,         \* instance.bp: the blinding polynomials, by slot
    proof,      \* instance.proof
    lro,        \* the local digests l, r, o of commitToLRO
    chal,       \* the challenges derived so far
    fsLRO,      \* the LROEntangled value bound to gamma, once bound
    trace,      \* instance.trace: the form of each polynomial of the trace
    fs,         \* instance.fs: the operations made on the transcript, in order
    pk,         \* the proving key Prove was called with
    qk,         \* the coefficients of the clone of trace.Qk made by completeQk
    su,         \* the call of Setup that made the proving key: its inputs,
                \* its position, what it has built and what it returned
    call,       \* a call of one of the prover's helper functions on its own:
                \* the function, its arguments, its locals and its result
    h,          \* instance.h
    result,     \* what Prove returned
    crashed     \* the panic that ended the process, if any

vars == << witness, pc, closedBy, cancelled, gErr, stageErr, firstErr,
           x, bp, proof, lro, chal, fsLRO, trace, fs, pk, qk, su, call, h,
           result, crashed >>

Stages == { "solveConstraints", "completeQk", "initBlindingPolynomials",
            "deriveGammaAndBeta", "buildRatioCopyConstraint",
            "computeQuotient", "batchOpening" }

\* the column-commitment goroutines of commitToLRO
Cols == { "L", "R", "O" }

\* the scale-back goroutine of computeNumerator
Restore == "restore"

Procs == Stages \cup Cols \cup { Restore }

Chans == { "chbp", "chLRO", "chQk", "chGammaBeta", "chZ", "chRestoreLRO", "chH" }

\* slots of instance.x (no custom gate in the circuit: nothing from id_Qci on)
XSlots == { "id_L", "id_R", "id_O", "id_Z", "id_ZS", "id_Ql", "id_Qr", "id_Qm",
            "id_Qo", "id_Qk", "id_S1", "id_S2", "id_S3", "id_ID", "id_LOne" }

BSlots == { "id_Bl", "id_Br", "id_Bo", "id_Bz" }

XCol(c) == CASE c = "L" -> "id_L" [] c = "R" -> "id_R" [] c = "O" -> "id_O"

BCol(c) == CASE c = "L" -> "id_Bl" [] c = "R" -> "id_Br" [] c = "O" -> "id_Bo"

\* the witnesses Prove is called with: a vector of the wrong dynamic type, or
\* a vector of field elements [public | secret] with 0, 1 or 2 entries; cap
\* is the capacity of the vector's backing array (an empty vector may have
\* been allocated with room for the public inputs)
Witnesses ==
    { [typeOK |-> FALSE, vals |-> << >>, cap |-> 0] } \cup
    { [typeOK |-> TRUE, vals |-> v, cap |-> Len(v)] :
        v \in { << >> } \cup { << a >> : a \in 0 .. MaxVal }
              \cup { << a, b >> : a \in 0 .. MaxVal, b \in 0 .. MaxVal } } \cup
    { [typeOK |-> TRUE, vals |-> << >>, cap |-> NbPublicVariables] }

\* ecc.NextPowerOfTwo: the cardinality fft.NewDomain gives a domain
RECURSIVE PowerOfTwoFrom(_, _)
PowerOfTwoFrom(p, m) == IF p >= m THEN p ELSE PowerOfTwoFrom(2 * p, m)

NextPowerOfTwo(m) == PowerOfTwoFrom(1, m)

\* nbConstraints + len(spr.Public): one row per constraint or assertion and
\* one placeholder row per public input
sizeSystem == Len(Constraints) + Len(Assertions) + NbPublicVariables

\* newInstance: s.domain0 = fft.NewDomain(sizeSystem)
domain0Cardinality(size) == NextPowerOfTwo(size)

\* newInstance: s.domain1 = fft.NewDomain(8*sizeSystem) when sizeSystem < 6,
\* fft.NewDomain(4*sizeSystem) otherwise
domain1Cardinality(size) ==
    IF size < 6 THEN NextPowerOfTwo(8 * size) ELSE NextPowerOfTwo(4 * size)

\* computeNumerator: rho := int(s.domain1.Cardinality / n)
rho(size) == domain1Cardinality(size) \div domain0Cardinality(size)

\* the polynomials of the trace
TracePolys == { "Ql", "Qr", "Qm", "Qo", "Qk", "S1", "S2", "S3" }

\* the trace polynomial a slot of x points to (computeQuotient stores the
\* pointers of the trace in x; x[id_Qk] is a clone)
Alias(slot) ==
    CASE slot = "id_Ql" -> "Ql" [] slot = "id_Qr" -> "Qr"
      [] slot = "id_Qm" -> "Qm" [] slot = "id_Qo" -> "Qo"
      [] slot = "id_S1" -> "S1" [] slot = "id_S2" -> "S2"
      [] slot = "id_S3" -> "S3" [] OTHER -> "none"

Aliased == { "Ql", "Qr", "Qm", "Qo", "S1", "S2", "S3" }

\* NewTrace: every polynomial is built in Lagrange basis, regular layout;
\* shift counts the coset scalings applied to the coefficients since then,
\* data tells whether the rows are still those NewTrace computed
lagReg == [basis |-> "Lagrange", layout |-> "Regular", shift |-> 0,
           data |-> "NewTrace"]

NewTrace == [p \in TracePolys |-> lagReg]

\* NewTrace: the column qk, 0 on the placeholder rows of the public inputs,
\* the constant of each constraint after them, 0 on the padding rows
TraceQk ==
    LET all == Constraints \o Assertions
    IN  [i \in 1 .. domain0Cardinality(sizeSystem) |->
           IF i <= NbPublicVariables THEN 0
           ELSE IF i - NbPublicVariables <= Len(all)
                THEN Coeff(all[i - NbPublicVariables].K)
                ELSE 0]

Closed(ch) == closedBy[ch] # "nobody"

(***************************************************************************)
(* Setup (backend/fflonk/bn254/setup.go): the domain, the two checks, the   *)
(* trace with its permutation, the commitment of the trace.                *)
(***************************************************************************)
\* largest number of public inputs of the circuits Setup is called with
MaxPublic == 1

\* number of variables of those circuits
MaxVars == 3

\* circuits of up to MaxWired constraints are drawn with every wiring
MaxWired == 1

\* largest number of constraints (past MaxWired the wiring is a fixed pattern)
MaxConstraints == 8

\* number_polynomials: the folding factor t of a circuit without custom gates
number_polynomials == 15

\* the wires (XA, XB, XC) a constraint may have
Triples == { << a, b, c >> : a \in 0 .. (MaxVars - 1), b \in 0 .. (MaxVars - 1),
                            c \in 0 .. (MaxVars - 1) }

\* the wiring of the larger circuits: row j reads variables j, j+d, j+2d
PatternWires(nbC, d) ==
    [j \in 1 .. nbC |->
       << j % MaxVars, (j + d) % MaxVars, (j + 2 * d) % MaxVars >>]

\* largest number of custom-gate commitments (len(spr.CommitmentInfo))
MaxQcp == 2

\* the circuits: number of public inputs, wires of each constraint, number of
\* custom-gate commitments (the larger circuits have some)
Circuits ==
    { [nbPublic |-> p, wires |-> w, nbQcp |-> 0] :
        p \in 0 .. MaxPublic,
        w \in UNION { [1 .. k -> Triples] : k \in 0 .. MaxWired } }
    \cup
    { [nbPublic |-> p, wires |-> PatternWires(k, d), nbQcp |-> q] :
        p \in 0 .. MaxPublic, k \in (MaxWired + 1) .. MaxConstraints,
        d \in 0 .. (MaxVars - 1), q \in 0 .. MaxQcp }

\* a mutated initFFTDomain that leaves the placeholder rows of the public
\* inputs out of the size
initFFTDomainNoPublic(c) == NextPowerOfTwo(Len(c.wires))

\* initFFTDomain: fft.NewDomain(nbConstraints + len(spr.Public))
initFFTDomain(c) == NextPowerOfTwo(Len(c.wires) + c.nbPublic)

\* the lengths of srs.Pk.G1 Setup is called with: one short of the check,
\* just enough for the check, enough for the commitment of the trace, enough
\* for every sub-key the prover reads
SRSLens(c) ==
    { initFFTDomain(c) + 2, initFFTDomain(c) + 3,
      (number_polynomials + 2 * c.nbQcp) * initFFTDomain(c),
      (number_polynomials + 2 * c.nbQcp) * (initFFTDomain(c) + 2) }

\* the slots of the folded commitment (the enum of setup.go)
setup_s3 == 7

prover_l == 8

prover_r == 9

prover_o == 10

prover_z == 11

prover_h_1 == 12

prover_h_2 == 13

prover_h_3 == 14

\* the polynomials of the trace in the order of their slots setup_ql..setup_s3
\* and then the custom-gate selectors Qcp_0 .. Qcp_{c-1}
SetupPolys(c) ==
    << << "Ql", 0 >>, << "Qr", 0 >>, << "Qm", 0 >>, << "Qo", 0 >>,
       << "Qk", 0 >>, << "S1", 0 >>, << "S2", 0 >>, << "S3", 0 >> >>
    \o [i \in 1 .. c |-> << "Qcp", i - 1 >>]

\* coefficient i of a polynomial, and the zero of a fresh buffer
CoeffOf(poly, i) == << poly[1], poly[2], i >>

ZeroCoeff == << "zero", 0, 0 >>

\* commitTrace, step 0: the canonical coefficients of the trace polynomials
traceList(c, size) ==
    [j \in 1 .. (setup_s3 + c + 1) |->
       [i \in 1 .. size |-> CoeffOf(SetupPolys(c)[j], i - 1)]]

\* a mutated step 1 that lays the polynomials one after the other
commitTraceBufBlocks(tl, t, size) ==
    [k \in 1 .. t * size |->
       LET j == (k - 1) \div size
           i == (k - 1) % size
       IN  IF j < Len(tl) THEN tl[j + 1][i + 1] ELSE ZeroCoeff]

\* commitTrace, step 1: buf[i*t+j] = traceList[j][i] in a zeroed buffer of
\* t*size coefficients
commitTraceBuf(tl, t, size) ==
    [k \in 1 .. t * size |->
       LET i == (k - 1) \div t
           j == (k - 1) % t
       IN  IF j < Len(tl) THEN tl[j + 1][i + 1] ELSE ZeroCoeff]

\* one entangled commitment: the polynomial, the slot id and the folding
\* factor t of the sub-key key[i*t+id], and the function that committed
Commitment(poly, id, t, by) == [poly |-> poly, id |-> id, t |-> t, by |-> by]

\* buildPermutation: lro, position -> variable id (0-based positions; the
\* placeholder rows hold the public inputs in L, every other entry not set
\* by a constraint is 0)
lroTable(c, n) ==
    [i \in 1 .. 3 * n |->
       LET col == (i - 1) \div n
           row == (i - 1) % n
       IN  IF row < c.nbPublic THEN (IF col = 0 THEN row ELSE 0)
           ELSE IF row - c.nbPublic < Len(c.wires)
                THEN c.wires[row - c.nbPublic + 1][col + 1]
                ELSE 0]

RECURSIVE firstPass(_, _, _, _)
\* buildPermutation, first loop from position i on: an id seen before sends
\* the position to the last position it was seen at
firstPass(i, lroT, permutation, cycle) ==
    IF i > Len(lroT) THEN << permutation, cycle >>
    ELSE LET id == lroT[i] + 1
         IN  firstPass(i + 1, lroT,
                       IF cycle[id] # -1
                       THEN [permutation EXCEPT ![i] = cycle[id]]
                       ELSE permutation,
                       [cycle EXCEPT ![id] = i - 1])

\* a mutated second loop that leaves the first occurrences unset
secondPassSkipped(lroT, permutation, cycle) == permutation

\* buildPermutation, second loop: the first position of an id is sent to the
\* last one
secondPass(lroT, permutation, cycle) ==
    [i \in 1 .. Len(permutation) |->
       IF permutation[i] = -1 THEN cycle[lroT[i] + 1] ELSE permutation[i]]

buildPermutation(c, n, nbVariables) ==
    LET lroT == lroTable(c, n)
        r == firstPass(1, lroT, [i \in 1 .. 3 * n |-> -1],
                       [v \in 1 .. nbVariables |-> -1])
    IN  secondPass(lroT, r[1], r[2])

\* Setup before its first step
SetupStart(c, srsLen) ==
    [circuit |-> c, srsLen |-> srsLen, pc |-> "initFFTDomain", card |-> 0,
     vkSet |-> FALSE, traceBuilt |-> FALSE, S |-> << >>, committed |-> FALSE,
     pkVk |-> "vk", vkQcp |-> 0, traceQcp |-> 0, buf |-> << >>,
     ret |-> [pk |-> "nil", vk |-> "nil", err |-> ErrNone],
     domain0 |-> 0, domain1 |-> 0, hs |-> << >>,
     commits |-> {}, bsb |-> 0, opened |-> << >>]

SetupReturn(pkv, vkv, err) == [pk |-> pkv, vk |-> vkv, err |-> err]

ErrDegenerateCircuit == "circuit has too few constraints"

ErrSRSTooSmall == "kzg srs is too small"

\* step 0: the domain; a cardinality below 2 is refused
Setup_initFFTDomain ==
    /\ su.pc = "initFFTDomain"
    /\ LET card == initFFTDomain(su.circuit)
       IN  su' = IF card < 2
                 THEN [su EXCEPT !.card = card, !.pc = "returned",
                                 !.ret = SetupReturn("nil", "nil", ErrDegenerateCircuit)]
                 ELSE [su EXCEPT !.card = card, !.pc = "checkSRS"]

\* a mutated Setup that does not check the size of the SRS
Setup_noCheckSRS ==
    /\ su.pc = "checkSRS"
    /\ su' = [su EXCEPT !.pc = "setVk"]

\* check the size of the kzg srs: cardinality + 3 points are needed
Setup_checkSRS ==
    /\ su.pc = "checkSRS"
    /\ su' = IF su.srsLen < su.card + 3
             THEN [su EXCEPT !.pc = "returned",
                             !.ret = SetupReturn("nil", "nil", ErrSRSTooSmall)]
             ELSE [su EXCEPT !.pc = "setVk"]

\* step 1: the verifying key and the commitment key
Setup_setVk ==
    /\ su.pc = "setVk"
    /\ su' = [su EXCEPT !.vkSet = TRUE, !.pc = "NewTrace"]

\* steps 2 and 3: NewTrace, with the permutation
Setup_NewTrace ==
    /\ su.pc = "NewTrace"
    /\ su' = [su EXCEPT !.traceBuilt = TRUE,
                        !.traceQcp = su.circuit.nbQcp,
                        !.S = buildPermutation(su.circuit, su.card, MaxVars),
                        !.pc = "commitTrace"]

\* step 4: commitTrace; kzg.Commit refuses a polynomial longer than the SRS.
\* Only vk.Qpublic is written: vk.Qcp stays as it was declared, empty.
Setup_commitTrace ==
    /\ su.pc = "commitTrace"
    /\ LET t == number_polynomials + 2 * su.traceQcp
           tl == traceList(su.traceQcp, su.card)
       IN  su' = IF t * su.card > su.srsLen
                 THEN [su EXCEPT !.pc = "returned",
                                 !.ret = SetupReturn("nil", "nil", ErrCollaborator)]
                 ELSE [su EXCEPT !.pc = "returned", !.committed = TRUE,
                                 !.buf = commitTraceBuf(tl, t, su.card),
                                 !.commits = { Commitment(SetupPolys(su.traceQcp)[j],
                                                          j - 1, t, "commitTrace") :
                                               j \in 1 .. Len(tl) },
                                 !.ret = SetupReturn("pk", "vk", ErrNone)]

\* newInstance, called by Prove with the circuit and the key of a Setup that
\* succeeded: the two fft domains
newInstance_domains ==
    /\ su.pc = "returned" /\ su.ret.err = ErrNone
    /\ LET size == Len(su.circuit.wires) + su.circuit.nbPublic
       IN  su' = [su EXCEPT !.domain0 = domain0Cardinality(size),
                           !.domain1 = domain1Cardinality(size),
                           !.pc = "proving"]

\* what stands for a slice or an array after an index out of range
OutOfRange == << >>

\* s.h.Coefficients()[lo:hi] with lo < hi: the slice, or a panic when hi
\* exceeds the length
Slice(H, lo, hi) == IF hi <= Len(H) THEN SubSeq(H, lo + 1, hi) ELSE OutOfRange

\* a mutated h2 that starts one coefficient early
h2Overlap(H, card) == Slice(H, card + 1, 2 * (card + 2))

h1(H, card) == Slice(H, 0, card + 2)

h2(H, card) == Slice(H, card + 2, 2 * (card + 2))

h3(H, card) == Slice(H, 2 * (card + 2), 3 * (card + 2))

\* the coefficients of the quotient: s.domain1.Cardinality of them, each
\* named by its index
HCoefficients(card1) == [k \in 1 .. card1 |-> k - 1]

\* the folding factor the prover computes from the verifying key
getNextDivisorRMinusOne(vkQcp) == number_polynomials + 2 * vkQcp

\* bsb22Hint, called by the solver once per custom-gate commitment: commits
\* to the committed wires under the sub-key of slot setup_s3 + 1 + commDepth
prover_bsb22Hint ==
    /\ su.pc = "proving" /\ su.bsb < su.circuit.nbQcp
    /\ su' = [su EXCEPT !.bsb = su.bsb + 1,
                        !.commits = su.commits \cup
                          { Commitment(<< "Pi", su.bsb >>, setup_s3 + 1 + su.bsb,
                                       getNextDivisorRMinusOne(su.vkQcp),
                                       "bsb22Hint") }]

\* commitToLRO: L, R, O under the slots prover_l.. + len(s.pk.Vk.Qcp)
prover_commitToLRO ==
    /\ su.pc = "proving" /\ su.bsb = su.circuit.nbQcp
    /\ LET t == getNextDivisorRMinusOne(su.vkQcp)
           offsetQcp == su.vkQcp
       IN  su' = [su EXCEPT !.pc = "lro",
                           !.commits = su.commits \cup
                             { Commitment(<< "L", 0 >>, prover_l + offsetQcp, t, "commitToLRO"),
                               Commitment(<< "R", 0 >>, prover_r + offsetQcp, t, "commitToLRO"),
                               Commitment(<< "O", 0 >>, prover_o + offsetQcp, t, "commitToLRO") }]

\* buildRatioCopyConstraint: Z under the slot prover_z + len(s.pk.Vk.Qcp)
prover_commitZ ==
    /\ su.pc = "lro"
    /\ su' = [su EXCEPT !.pc = "z",
                        !.commits = su.commits \cup
                          { Commitment(<< "Z", 0 >>, prover_z + su.vkQcp,
                                       getNextDivisorRMinusOne(su.vkQcp),
                                       "buildRatioCopyConstraint") }]

\* computeQuotient: h is cut into h1, h2, h3 for commitToQuotient
computeQuotient_split ==
    /\ su.pc = "z"
    /\ LET H == HCoefficients(su.domain1)
       IN  su' = [su EXCEPT !.pc = "split",
                           !.hs = << h1(H, su.domain0), h2(H, su.domain0),
                                     h3(H, su.domain0) >>]

\* commitToQuotient: h1, h2, h3 (n+2 coefficients each) under the slots
\* prover_h_1.. + len(s.pk.Vk.Qcp); reading kzgPk.G1 past its end panics
prover_commitToQuotient ==
    /\ su.pc = "split"
    /\ LET t == number_polynomials + 2 * su.vkQcp
           lenQcp == su.vkQcp
           rh1 == lenQcp + prover_h_1
           rh2 == lenQcp + prover_h_2
           rh3 == lenQcp + prover_h_3
       IN  su' = IF (su.domain0 + 1) * t + rh3 >= su.srsLen
                 THEN [su EXCEPT !.pc = "panicked"]
                 ELSE [su EXCEPT !.pc = "quotient",
                         !.commits = su.commits \cup
                           { Commitment(<< "H1", 0 >>, rh1, t, "commitToQuotient"),
                             Commitment(<< "H2", 0 >>, rh2, t, "commitToQuotient"),
                             Commitment(<< "H3", 0 >>, rh3, t, "commitToQuotient") }]

NilPoly == << "nil", 0 >>

\* batchOpening, step 1: the assignments polysToOpen[0][index] = polynomial,
\* in the order of the code (0-based indices)
assignments(c) ==
    [j \in 1 .. (setup_s3 + 1 + c) |-> << j - 1, SetupPolys(c)[j] >>]
    \o << << prover_l + c, << "L", 0 >> >>, << prover_r + c, << "R", 0 >> >>,
          << prover_o + c, << "O", 0 >> >>, << prover_z + c, << "Z", 0 >> >>,
          << prover_h_1 + c, << "H1", 0 >> >>, << prover_h_2 + c, << "H2", 0 >> >>,
          << prover_h_3 + c, << "H3", 0 >> >> >>
    \o [i \in 1 .. c |-> << number_polynomials + c + (i - 1), << "Pi", i - 1 >> >>]

RECURSIVE assign(_, _, _)
\* the array after the assignments from the k-th on; a panic when an index
\* is out of range
assign(arr, as, k) ==
    IF k > Len(as) THEN arr
    ELSE IF as[k][1] >= Len(arr) THEN OutOfRange
         ELSE assign([arr EXCEPT ![as[k][1] + 1] = as[k][2]], as, k + 1)

\* a mutated batchOpening, step 2, that opens Z at zeta^t without omega
pointsNoOmega(t) == << [omega |-> 0, zeta |-> 1], [omega |-> 0, zeta |-> t] >>

\* batchOpening, step 2: the points zeta and omega * zeta^t, as exponents
points(t) == << [omega |-> 0, zeta |-> 1], [omega |-> 1, zeta |-> t] >>

\* batchOpening: the two sets of polynomials and their points
prover_batchOpening ==
    /\ su.pc = "quotient"
    /\ LET t == getNextDivisorRMinusOne(su.vkQcp)
           set1 == assign([k \in 1 .. t |-> NilPoly], assignments(su.traceQcp), 1)
       IN  su' = IF set1 = OutOfRange
                 THEN [su EXCEPT !.pc = "panicked"]
                 ELSE [su EXCEPT !.pc = "opened",
                         !.opened = [polysToOpen |-> << set1, << << "Z", 0 >> >> >>,
                                     points |-> points(t)]]

\* the circuit x*x == y as Setup sees it: its two rows and their wires
ToyCircuit ==
    [nbPublic |-> NbPublicVariables,
     wires |-> << << 1, 1, 2 >>, << 2, 0, 0 >> >>, nbQcp |-> 0]

\* Setup and newInstance have run on the circuit Prove is called with
ToySetup ==
    LET c == ToyCircuit
        size == Len(c.wires) + c.nbPublic
        card == initFFTDomain(c)
    IN  [circuit |-> c, srsLen |-> number_polynomials * (card + 2), pc |-> "proving",
         card |-> card, vkSet |-> TRUE, traceBuilt |-> TRUE,
         S |-> buildPermutation(c, card,
                 NbPublicVariables + NbSecretVariables + NbInternalVariables),
         committed |-> TRUE, pkVk |-> "vk", vkQcp |-> 0, traceQcp |-> 0,
         buf |-> commitTraceBuf(traceList(0, card), number_polynomials, card),
         ret |-> SetupReturn("pk", "vk", ErrNone),
         domain0 |-> domain0Cardinality(size),
         domain1 |-> domain1Cardinality(size), hs |-> << >>,
         commits |-> { Commitment(SetupPolys(0)[j], j - 1, number_polynomials,
                                  "commitTrace") : j \in 1 .. (setup_s3 + 1) },
         bsb |-> 0, opened |-> << >>]

\* no helper function is being called on its own
NoCall == [fn |-> "none"]

\* newInstance: the instance Prove starts its stages on
InitProver ==
    /\ pc = [p \in Procs |->
               CASE p = "solveConstraints"         -> "solve"
                 [] p = "completeQk"               -> "clone"
                 [] p = "initBlindingPolynomials"  -> "init"
                 [] p = "deriveGammaAndBeta"       -> "bind"
                 [] p = "buildRatioCopyConstraint" -> "waitGammaBeta"
                 [] p = "computeQuotient"          -> "init"
                 [] p = "batchOpening"             -> "waitLRO"
                 [] OTHER                          -> "idle"]
    /\ closedBy = [ch \in Chans |-> "nobody"]
    /\ cancelled = FALSE
    /\ gErr = ErrNone
    /\ stageErr = [p \in Stages |-> ErrNone]
    /\ firstErr = ErrNone
    /\ x = [s \in XSlots |-> "nil"]
    /\ bp = [s \in BSlots |-> "nil"]
    /\ proof = [LROEntangled |-> [c \in Cols |-> "unset"], Z |-> "unset",
                ZEntangled |-> "unset", HEntangled |-> "unset",
                BatchOpeningProof |-> "unset"]
    /\ lro = [c \in Cols |-> "zero"]
    /\ chal = {}
    /\ fsLRO = << >>
    /\ trace = NewTrace
    /\ fs = << >>
    /\ pk = [Kzg |-> "srs", Vk |-> "vk"]
    /\ qk = << >>
    /\ h = "nil"
    /\ result = [status |-> "running", proof |-> "nil", err |-> ErrNone]
    /\ crashed = "no"

Init ==
    /\ witness \in Witnesses
    /\ su = ToySetup
    /\ call = NoCall
    /\ InitProver

(***************************************************************************)
(* Building blocks: errgroup, select, close, panic.                        *)
(***************************************************************************)
\* a mutated errgroup that keeps the last error returned
errgroupRecordLast(cur, err) == err

\* errgroup: errOnce keeps the first non-nil error a stage returns
errgroupRecord(cur, err) == IF cur = ErrNone THEN err ELSE cur

Goto(p, l) ==
    /\ pc' = [pc EXCEPT ![p] = l]
    /\ UNCHANGED << cancelled, gErr, stageErr, firstErr >>

\* stage p returns err to the errgroup; a non-nil error is recorded and
\* cancels the context
Return(p, err) ==
    /\ pc' = [pc EXCEPT ![p] = "done"]
    /\ stageErr' = [stageErr EXCEPT ![p] = err]
    /\ gErr' = IF err # ErrNone THEN errgroupRecord(gErr, err) ELSE gErr
    /\ cancelled' = (cancelled \/ err # ErrNone)
    /\ firstErr' = IF err # ErrNone /\ firstErr = ErrNone THEN err ELSE firstErr

\* select { case <-ctx.Done(): return errContextDone; case <-ch: }
\* when both are ready either case may be taken
Select(p, ch, next) ==
    \/ cancelled /\ Return(p, errContextDone)
    \/ Closed(ch) /\ Goto(p, next)

\* close(ch) by goroutine p; closing a closed channel panics
Close(p, ch) ==
    IF Closed(ch)
    THEN crashed' = "close of closed channel" /\ UNCHANGED closedBy
    ELSE closedBy' = [closedBy EXCEPT ![ch] = p] /\ UNCHANGED crashed

\* goroutine p is at position l and the process has not panicked
At(p, l) == crashed = "no" /\ pc[p] = l

NoData == UNCHANGED << x, bp, proof, lro, chal, fsLRO, h >>

Frame == UNCHANGED << witness, result, su, call >>

Idle == UNCHANGED << closedBy, crashed >>

Rest == UNCHANGED << trace, fs, pk, qk >>

\* computeNumerator, k coset passes over a polynomial of x: ToCanonical,
\* scaling of the coefficients by the powers of the shifter, ToLagrange,
\* ToRegular, all in place
cosetPasses(p, k) ==
    [p EXCEPT !.basis = IF k = 0 THEN p.basis ELSE "Lagrange",
              !.layout = IF k = 0 THEN p.layout ELSE "Regular",
              !.shift = p.shift + k]

\* a mutated scale-back that converts to canonical form without scaling
scaleBackNoScale(p) == [p EXCEPT !.basis = "Canonical", !.layout = "Regular"]

\* the scale-back goroutine on one polynomial of x: ToCanonical, ToRegular,
\* scalePowers by the inverse of the product of the shifters
scaleBack(p) ==
    [p EXCEPT !.basis = "Canonical", !.layout = "Regular",
              !.shift = p.shift - rho(sizeSystem)]

\* p.ToCanonical(domain).ToRegular(), in place
toCanonicalRegular(p) == [p EXCEPT !.basis = "Canonical", !.layout = "Regular"]

\* a mutated sub-key that is a slice of the key and is written through
subPkInPlace(key) == "overwritten"

\* the sub-key of an entangled commitment is a fresh array the points of
\* the key are copied into: the key is left as it was
subPk(key) == key

\* wWitness[:len(s.spr.Public)] panics when the bound exceeds the capacity
SliceInRange(w) == w.cap >= NbPublicVariables

Panic(p) ==
    /\ crashed' = "slice bounds out of range"
    /\ UNCHANGED << pc, closedBy, cancelled, gErr, stageErr, firstErr >>


(***************************************************************************)
(* initBlindingPolynomials                                                 *)
(***************************************************************************)
initBlindingPolynomials ==
    /\ At("initBlindingPolynomials", "init")
    /\ bp' = [s \in BSlots |-> "set"]
    /\ Close("initBlindingPolynomials", "chbp")
    /\ Return("initBlindingPolynomials", ErrNone)
    /\ UNCHANGED << x, proof, lro, chal, fsLRO, h >>
    /\ Frame
    /\ Rest

(***************************************************************************)
(* solveConstraints, with commitToLRO and its three column goroutines      *)
(***************************************************************************)
\* s.spr.Solve(s.fullWitness, ...)
solveConstraints_solve ==
    /\ At("solveConstraints", "solve")
    /\ IF Solve(witness) # ErrNone
       THEN Return("solveConstraints", Solve(witness))
       ELSE Goto("solveConstraints", "setLRO")
    /\ NoData /\ Frame /\ Idle
    /\ Rest

\* x[id_L], x[id_R], x[id_O] are set (two goroutines and the stage itself,
\* joined by wg.Wait)
solveConstraints_setLRO ==
    /\ At("solveConstraints", "setLRO")
    /\ x' = [x EXCEPT !["id_L"] = "set", !["id_R"] = "set", !["id_O"] = "set"]
    /\ Goto("solveConstraints", "waitbp")
    /\ UNCHANGED << bp, proof, lro, chal, fsLRO, h >>
    /\ Frame /\ Idle
    /\ Rest

\* a mutated commitToLRO that does not wait for the blinding polynomials
commitToLRO_nowait ==
    /\ At("solveConstraints", "waitbp")
    /\ Goto("solveConstraints", "spawn")
    /\ NoData /\ Frame /\ Idle
    /\ Rest

\* commitToLRO: wait for the blinding polynomials or for the context
commitToLRO_wait ==
    /\ At("solveConstraints", "waitbp")
    /\ Select("solveConstraints", "chbp", "spawn")
    /\ NoData /\ Frame /\ Idle
    /\ Rest

\* the three g.Go calls
commitToLRO_spawn ==
    /\ At("solveConstraints", "spawn")
    /\ pc' = [p \in Procs |-> IF p \in Cols THEN "run"
                              ELSE IF p = "solveConstraints" THEN "sum"
                              ELSE pc[p]]
    /\ UNCHANGED << cancelled, gErr, stageErr, firstErr >>
    /\ NoData /\ Frame /\ Idle
    /\ Rest

\* what the unsynchronised read of a column digest by the stage can yield
RacyRead(c) ==
    CASE pc[c] = "ok"   -> { "val" }
      [] pc[c] = "fail" -> { "zero" }
      [] OTHER          -> { "zero", "torn" }

\* s.proof.LROEntangled.Add(&l, &r).Add(&s.proof.LROEntangled, &o), executed
\* before g.Wait()
commitToLRO_sum ==
    /\ At("solveConstraints", "sum")
    /\ \E v \in [Cols -> { "val", "zero", "torn" }] :
          /\ \A c \in Cols : v[c] \in RacyRead(c)
          /\ proof' = [proof EXCEPT !.LROEntangled = v]
    /\ Goto("solveConstraints", "gwait")
    /\ UNCHANGED << x, bp, lro, chal, fsLRO, h >>
    /\ Frame /\ Idle
    /\ Rest

\* one column goroutine: commitToEntangledPolyAndBlinding(x[id], bp[id], slot)
commitToEntangledPolyAndBlinding(c) ==
    /\ At(c, "run")
    /\ \/ /\ lro' = [lro EXCEPT ![c] = "val"]
          /\ Goto(c, "ok")
       \/ /\ lro' = lro
          /\ Goto(c, "fail")
    /\ pk' = [pk EXCEPT !.Kzg = subPk(pk.Kzg)]
    /\ UNCHANGED << x, bp, proof, chal, fsLRO, h >>
    /\ Frame /\ Idle
    /\ UNCHANGED << trace, fs, qk >>

\* return g.Wait(), then close(s.chLRO) in solveConstraints
commitToLRO_gwait ==
    /\ At("solveConstraints", "gwait")
    /\ \A c \in Cols : pc[c] \in { "ok", "fail" }
    /\ IF \E c \in Cols : pc[c] = "fail"
       THEN /\ Return("solveConstraints", ErrCollaborator)
            /\ Idle
       ELSE /\ Close("solveConstraints", "chLRO")
            /\ Return("solveConstraints", ErrNone)
    /\ NoData /\ Frame
    /\ Rest

(***************************************************************************)
(* completeQk                                                              *)
(***************************************************************************)
\* qk after copy(qkCoeffs, wWitness[:len(s.spr.Public)]): the entries of the
\* slice past the length of the vector are whatever its backing array holds
CopiedQk(w) ==
    { [i \in 1 .. Len(TraceQk) |->
         IF i <= NbPublicVariables THEN pub[i] ELSE TraceQk[i]] :
      pub \in { f \in [1 .. NbPublicVariables -> 0 .. MaxVal] :
                  \A i \in 1 .. NbPublicVariables :
                      i <= Len(w.vals) => f[i] = w.vals[i] } }

\* a mutated completeQk that writes the public inputs into trace.Qk itself
completeQk_noclone ==
    /\ At("completeQk", "clone")
    /\ IF ~witness.typeOK
       THEN Return("completeQk", ErrInvalidWitness) /\ Idle /\ UNCHANGED << qk, trace >>
       ELSE IF ~SliceInRange(witness)
       THEN Panic("completeQk") /\ UNCHANGED << qk, trace >>
       ELSE /\ Goto("completeQk", "waitLRO") /\ Idle
            /\ qk' \in CopiedQk(witness)
            /\ trace' = [trace EXCEPT !["Qk"].data = "overwritten"]
    /\ NoData /\ Frame
    /\ UNCHANGED << fs, pk >>

\* qk := s.trace.Qk.Clone(); the public inputs are copied to its first rows
completeQk_clone ==
    /\ At("completeQk", "clone")
    /\ IF ~witness.typeOK
       THEN Return("completeQk", ErrInvalidWitness) /\ Idle /\ UNCHANGED qk
       ELSE IF ~SliceInRange(witness)
       THEN Panic("completeQk") /\ UNCHANGED qk
       ELSE /\ Goto("completeQk", "waitLRO") /\ Idle
            /\ qk' \in CopiedQk(witness)
    /\ NoData /\ Frame
    /\ UNCHANGED << trace, fs, pk >>

completeQk_wait ==
    /\ At("completeQk", "waitLRO")
    /\ Select("completeQk", "chLRO", "write")
    /\ NoData /\ Frame /\ Idle
    /\ Rest

completeQk_write ==
    /\ At("completeQk", "write")
    /\ x' = [x EXCEPT !["id_Qk"] = "set"]
    /\ Close("completeQk", "chQk")
    /\ Return("completeQk", ErrNone)
    /\ UNCHANGED << bp, proof, lro, chal, fsLRO, h >>
    /\ Frame
    /\ Rest

(***************************************************************************)
(* deriveGammaAndBeta                                                      *)
(***************************************************************************)
\* one operation on the transcript
Bind(slot, data) == [op |-> "bind", slot |-> slot, data |-> data]

ComputeChallenge(slot) == [op |-> "challenge", slot |-> slot, data |-> "none"]

\* deriveRandomness binds the given commitment to the slot, then computes the
\* challenge of the slot (spec 4.3: gamma <- hash(public data || LROEntangled),
\* alpha <- hash(.. || ZEntangled), zeta <- hash(HEntangled))
deriveRandomness(slot, data) == << Bind(slot, data), ComputeChallenge(slot) >>

\* the transcript after a call that fails part-way through ops
FailedPart(ops) == { SubSeq(ops, 1, k) : k \in 0 .. (Len(ops) - 1) }

\* bindPublicData binds the verifying key and the public inputs to the slot
\* of gamma; binding to a fresh transcript is deterministic and reports no
\* failure (spec 4.3 and the transcript collaborator bind(label, bytes))
bindPublicData == ErrNone

deriveGammaAndBeta_bind ==
    /\ At("deriveGammaAndBeta", "bind")
    /\ IF ~witness.typeOK
       THEN Return("deriveGammaAndBeta", ErrInvalidWitness) /\ Idle
       ELSE IF ~SliceInRange(witness)
       THEN Panic("deriveGammaAndBeta")
       ELSE IF bindPublicData # ErrNone
       THEN Return("deriveGammaAndBeta", bindPublicData) /\ Idle
       ELSE Goto("deriveGammaAndBeta", "waitLRO") /\ Idle
    /\ fs' = IF witness.typeOK /\ SliceInRange(witness)
             THEN Append(fs, Bind("gamma", "public"))
             ELSE fs
    /\ NoData /\ Frame
    /\ UNCHANGED << trace, pk, qk >>

deriveGammaAndBeta_wait ==
    /\ At("deriveGammaAndBeta", "waitLRO")
    /\ Select("deriveGammaAndBeta", "chLRO", "derive")
    /\ NoData /\ Frame /\ Idle
    /\ Rest

\* gamma is derived from the transcript bound to proof.LROEntangled, then beta
deriveGammaAndBeta_derive ==
    /\ At("deriveGammaAndBeta", "derive")
    /\ fsLRO' = << proof.LROEntangled >>
    /\ LET ops == deriveRandomness("gamma", "LROEntangled")
                  \o << ComputeChallenge("beta") >>
       IN  \/ /\ Return("deriveGammaAndBeta", ErrCollaborator)
              /\ \E part \in FailedPart(ops) : fs' = fs \o part
              /\ UNCHANGED chal
              /\ Idle
           \/ /\ chal' = chal \cup { "gamma", "beta" }
              /\ fs' = fs \o ops
              /\ Close("deriveGammaAndBeta", "chGammaBeta")
              /\ Return("deriveGammaAndBeta", ErrNone)
    /\ UNCHANGED << x, bp, proof, lro, h >>
    /\ Frame
    /\ UNCHANGED << trace, pk, qk >>


(***************************************************************************)
(* buildRatioCopyConstraint                                                *)
(***************************************************************************)
buildRatioCopyConstraint_wait ==
    /\ At("buildRatioCopyConstraint", "waitGammaBeta")
    /\ Select("buildRatioCopyConstraint", "chGammaBeta", "build")
    /\ NoData /\ Frame /\ Idle
    /\ Rest

\* s.x[id_Z], err = iop.BuildRatioCopyConstraint(...)
buildRatioCopyConstraint_build ==
    /\ At("buildRatioCopyConstraint", "build")
    /\ \/ /\ Return("buildRatioCopyConstraint", ErrCollaborator)
          /\ UNCHANGED x
       \/ /\ x' = [x EXCEPT !["id_Z"] = "set"]
          /\ Goto("buildRatioCopyConstraint", "commitZEntangled")
    /\ UNCHANGED << bp, proof, lro, chal, fsLRO, h >>
    /\ Frame /\ Idle
    /\ Rest

\* s.proof.ZEntangled, err = s.commitToEntangledPolyAndBlinding(...)
buildRatioCopyConstraint_commitZEntangled ==
    /\ At("buildRatioCopyConstraint", "commitZEntangled")
    /\ \/ /\ proof' = [proof EXCEPT !.ZEntangled = "zero"]
          /\ Return("buildRatioCopyConstraint", ErrCollaborator)
       \/ /\ proof' = [proof EXCEPT !.ZEntangled = "val"]
          /\ Goto("buildRatioCopyConstraint", "commitZ")
    /\ pk' = [pk EXCEPT !.Kzg = subPk(pk.Kzg)]
    /\ UNCHANGED << x, bp, lro, chal, fsLRO, h >>
    /\ Frame /\ Idle
    /\ UNCHANGED << trace, fs, qk >>

\* s.proof.Z, err = s.commitToPolyAndBlinding(...); close(s.chZ); return
buildRatioCopyConstraint_commitZ ==
    /\ At("buildRatioCopyConstraint", "commitZ")
    /\ Close("buildRatioCopyConstraint", "chZ")
    /\ \/ /\ proof' = [proof EXCEPT !.Z = "zero"]
          /\ Return("buildRatioCopyConstraint", ErrCollaborator)
       \/ /\ proof' = [proof EXCEPT !.Z = "val"]
          /\ Return("buildRatioCopyConstraint", ErrNone)
    /\ UNCHANGED << x, bp, lro, chal, fsLRO, h >>
    /\ Frame
    /\ Rest

(***************************************************************************)
(* computeQuotient, with computeNumerator and its scale-back goroutine     *)
(***************************************************************************)
\* the selector and permutation polynomials of the trace are put in x
computeQuotient_init ==
    /\ At("computeQuotient", "init")
    /\ x' = [s \in XSlots |->
               IF s \in { "id_Ql", "id_Qr", "id_Qm", "id_Qo",
                          "id_S1", "id_S2", "id_S3" } THEN "set" ELSE x[s]]
    /\ Goto("computeQuotient", "waitLRO")
    /\ UNCHANGED << bp, proof, lro, chal, fsLRO, h >>
    /\ Frame /\ Idle
    /\ Rest

computeQuotient_waitLRO ==
    /\ At("computeQuotient", "waitLRO")
    /\ Select("computeQuotient", "chLRO", "waitZ")
    /\ NoData /\ Frame /\ Idle
    /\ Rest

\* a mutated computeQuotient that does not wait for Z to be committed
computeQuotient_nowaitZ ==
    /\ At("computeQuotient", "waitZ")
    /\ Goto("computeQuotient", "alpha")
    /\ NoData /\ Frame /\ Idle
    /\ Rest

computeQuotient_waitZ ==
    /\ At("computeQuotient", "waitZ")
    /\ Select("computeQuotient", "chZ", "alpha")
    /\ NoData /\ Frame /\ Idle
    /\ Rest

\* deriveAlpha, then x[id_ID], x[id_LOne], x[id_ZS] are set
computeQuotient_alpha ==
    /\ At("computeQuotient", "alpha")
    /\ LET ops == deriveRandomness("alpha", "ZEntangled")
       IN  \/ /\ Return("computeQuotient", ErrCollaborator)
              /\ \E part \in FailedPart(ops) : fs' = fs \o part
              /\ UNCHANGED << x, chal >>
           \/ /\ chal' = chal \cup { "alpha" }
              /\ fs' = fs \o ops
              /\ x' = [x EXCEPT !["id_ID"] = "set", !["id_LOne"] = "set",
                                !["id_ZS"] = "set"]
              /\ Goto("computeQuotient", "waitQk")
    /\ UNCHANGED << bp, proof, lro, fsLRO, h >>
    /\ Frame /\ Idle
    /\ UNCHANGED << trace, pk, qk >>

\* computeNumerator: wait for chQk to be closed (or ctx.Done())
computeNumerator_wait ==
    /\ At("computeQuotient", "waitQk")
    /\ Select("computeQuotient", "chQk", "numerator")
    /\ NoData /\ Frame /\ Idle
    /\ Rest

\* computeNumerator: the coset passes over x and bp; on success the
\* scale-back goroutine is started
computeNumerator ==
    /\ At("computeQuotient", "numerator")
    /\ \/ /\ Return("computeQuotient", ErrCollaborator)
          /\ \E k \in 0 .. rho(sizeSystem) :
                trace' = [p \in TracePolys |->
                            IF p \in Aliased THEN cosetPasses(trace[p], k)
                            ELSE trace[p]]
       \/ /\ pc' = [pc EXCEPT !["computeQuotient"] = "divide", ![Restore] = "run"]
          /\ trace' = [p \in TracePolys |->
                         IF p \in Aliased
                         THEN cosetPasses(trace[p], rho(sizeSystem))
                         ELSE trace[p]]
          /\ UNCHANGED << cancelled, gErr, stageErr, firstErr >>
    /\ NoData /\ Frame /\ Idle
    /\ UNCHANGED << fs, pk, qk >>

\* the scale-back goroutine: drops ID, LOne, ZS, Qk, rescales the rest of x
\* and bp, then close(s.chRestoreLRO)
computeNumerator_restore ==
    /\ At(Restore, "run")
    /\ x' = [s \in XSlots |->
               IF s \in { "id_ID", "id_LOne", "id_ZS", "id_Qk" } THEN "nil" ELSE x[s]]
    /\ trace' = [p \in TracePolys |->
                   IF p \in Aliased THEN scaleBack(trace[p]) ELSE trace[p]]
    /\ Close(Restore, "chRestoreLRO")
    /\ Goto(Restore, "done")
    /\ UNCHANGED << bp, proof, lro, chal, fsLRO, h >>
    /\ Frame
    /\ UNCHANGED << fs, pk, qk >>

\* s.h, err = divideByXMinusOne(numerator, ...)
computeQuotient_divide ==
    /\ At("computeQuotient", "divide")
    /\ \/ /\ Return("computeQuotient", ErrCollaborator)
          /\ UNCHANGED h
       \/ /\ h' = "set"
          /\ Goto("computeQuotient", "commitToQuotient")
    /\ UNCHANGED << x, bp, proof, lro, chal, fsLRO >>
    /\ Frame /\ Idle
    /\ Rest

\* commitToQuotient: HEntangled is written after g.Wait(), error or not
commitToQuotient ==
    /\ At("computeQuotient", "commitToQuotient")
    /\ \/ /\ proof' = [proof EXCEPT !.HEntangled = "zero"]
          /\ Return("computeQuotient", ErrCollaborator)
       \/ /\ proof' = [proof EXCEPT !.HEntangled = "val"]
          /\ Goto("computeQuotient", "zeta")
    /\ pk' = [pk EXCEPT !.Kzg = subPk(pk.Kzg)]
    /\ UNCHANGED << x, bp, lro, chal, fsLRO, h >>
    /\ Frame /\ Idle
    /\ UNCHANGED << trace, fs, qk >>

computeQuotient_zeta ==
    /\ At("computeQuotient", "zeta")
    /\ LET ops == deriveRandomness("zeta", "HEntangled")
       IN  \/ /\ Return("computeQuotient", ErrCollaborator)
              /\ \E part \in FailedPart(ops) : fs' = fs \o part
              /\ UNCHANGED chal
           \/ /\ chal' = chal \cup { "zeta" }
              /\ fs' = fs \o ops
              /\ Goto("computeQuotient", "waitRestore")
    /\ UNCHANGED << x, bp, proof, lro, fsLRO, h >>
    /\ Frame /\ Idle
    /\ UNCHANGED << trace, pk, qk >>

\* a mutated computeQuotient that does not wait for the scale-back goroutine
computeQuotient_norestore ==
    /\ At("computeQuotient", "waitRestore")
    /\ Goto("computeQuotient", "close")
    /\ NoData /\ Frame /\ Idle
    /\ Rest

\* wait for clean up tasks to be done
computeQuotient_waitRestore ==
    /\ At("computeQuotient", "waitRestore")
    /\ Select("computeQuotient", "chRestoreLRO", "close")
    /\ NoData /\ Frame /\ Idle
    /\ Rest

\* a mutated computeQuotient that closes chRestoreLRO in place of chH
computeQuotient_closeRestore ==
    /\ At("computeQuotient", "close")
    /\ Close("computeQuotient", "chRestoreLRO")
    /\ Return("computeQuotient", ErrNone)
    /\ NoData /\ Frame
    /\ Rest

computeQuotient_close ==
    /\ At("computeQuotient", "close")
    /\ Close("computeQuotient", "chH")
    /\ Return("computeQuotient", ErrNone)
    /\ NoData /\ Frame
    /\ Rest

(***************************************************************************)
(* batchOpening                                                            *)
(***************************************************************************)
batchOpening_waitLRO ==
    /\ At("batchOpening", "waitLRO")
    /\ Select("batchOpening", "chLRO", "waitH")
    /\ NoData /\ Frame /\ Idle
    /\ Rest

\* a mutated batchOpening without the second wait
batchOpening_nowaitH ==
    /\ At("batchOpening", "waitH")
    /\ Goto("batchOpening", "open")
    /\ NoData /\ Frame /\ Idle
    /\ Rest

batchOpening_waitH ==
    /\ At("batchOpening", "waitH")
    /\ Select("batchOpening", "chH", "open")
    /\ NoData /\ Frame /\ Idle
    /\ Rest

\* folded digests, polynomials to open, fflonk.BatchOpen
batchOpening_open ==
    /\ At("batchOpening", "open")
    /\ trace' = [p \in TracePolys |-> toCanonicalRegular(trace[p])]
    /\ \/ /\ Return("batchOpening", ErrCollaborator)
          /\ UNCHANGED proof
       \/ /\ proof' = [proof EXCEPT !.BatchOpeningProof = "val"]
          /\ Return("batchOpening", ErrNone)
    /\ UNCHANGED << x, bp, lro, chal, fsLRO, h >>
    /\ Frame /\ Idle
    /\ UNCHANGED << fs, pk, qk >>

(***************************************************************************)
(* Prove: g.Wait() and the return                                          *)
(***************************************************************************)
\* a mutated Prove that returns as soon as computeQuotient has returned
Prove_returnEarly ==
    /\ crashed = "no"
    /\ result.status = "running"
    /\ pc["computeQuotient"] = "done"
    /\ result' = IF gErr # ErrNone
                 THEN [status |-> "returned", proof |-> "nil", err |-> gErr]
                 ELSE [status |-> "returned", proof |-> "proof", err |-> ErrNone]
    /\ cancelled' = TRUE
    /\ UNCHANGED << witness, su, call, pc, closedBy, gErr, stageErr, firstErr,
                    crashed >>
    /\ NoData
    /\ Rest

Prove_return ==
    /\ crashed = "no"
    /\ result.status = "running"
    /\ \A p \in Stages : pc[p] = "done"
    /\ result' = IF gErr # ErrNone
                 THEN [status |-> "returned", proof |-> "nil", err |-> gErr]
                 ELSE [status |-> "returned", proof |-> "proof", err |-> ErrNone]
    /\ cancelled' = TRUE
    /\ UNCHANGED << witness, su, call, pc, closedBy, gErr, stageErr, firstErr,
                    crashed >>
    /\ NoData
    /\ Rest

Next ==
    \/ initBlindingPolynomials
    \/ solveConstraints_solve
    \/ solveConstraints_setLRO
    \/ commitToLRO_wait
    \/ commitToLRO_spawn
    \/ commitToLRO_sum
    \/ \E c \in Cols : commitToEntangledPolyAndBlinding(c)
    \/ commitToLRO_gwait
    \/ completeQk_clone
    \/ completeQk_wait
    \/ completeQk_write
    \/ deriveGammaAndBeta_bind
    \/ deriveGammaAndBeta_wait
    \/ deriveGammaAndBeta_derive
    \/ buildRatioCopyConstraint_wait
    \/ buildRatioCopyConstraint_build
    \/ buildRatioCopyConstraint_commitZEntangled
    \/ buildRatioCopyConstraint_commitZ
    \/ computeQuotient_init
    \/ computeQuotient_waitLRO
    \/ computeQuotient_waitZ
    \/ computeQuotient_alpha
    \/ computeNumerator_wait
    \/ computeNumerator
    \/ computeNumerator_restore
    \/ computeQuotient_divide
    \/ commitToQuotient
    \/ computeQuotient_zeta
    \/ computeQuotient_waitRestore
    \/ computeQuotient_close
    \/ batchOpening_waitLRO
    \/ batchOpening_waitH
    \/ batchOpening_open
    \/ Prove_return

Spec == Init /\ [][Next]_vars


\* every goroutine that can take a step eventually takes it (the Go scheduler
\* starves no runnable goroutine)
Fairness ==
    /\ WF_vars(initBlindingPolynomials)
    /\ WF_vars(solveConstraints_solve \/ solveConstraints_setLRO \/ commitToLRO_wait
               \/ commitToLRO_spawn \/ commitToLRO_sum \/ commitToLRO_gwait)
    /\ \A c \in Cols : WF_vars(commitToEntangledPolyAndBlinding(c))
    /\ WF_vars(completeQk_clone \/ completeQk_wait \/ completeQk_write)
    /\ WF_vars(deriveGammaAndBeta_bind \/ deriveGammaAndBeta_wait
               \/ deriveGammaAndBeta_derive)
    /\ WF_vars(buildRatioCopyConstraint_wait \/ buildRatioCopyConstraint_build
               \/ buildRatioCopyConstraint_commitZEntangled
               \/ buildRatioCopyConstraint_commitZ)
    /\ WF_vars(computeQuotient_init \/ computeQuotient_waitLRO \/ computeQuotient_waitZ
               \/ computeQuotient_alpha \/ computeNumerator_wait \/ computeNumerator
               \/ computeQuotient_divide \/ commitToQuotient \/ computeQuotient_zeta
               \/ computeQuotient_waitRestore \/ computeQuotient_close)
    /\ WF_vars(computeNumerator_restore)
    /\ WF_vars(batchOpening_waitLRO \/ batchOpening_waitH \/ batchOpening_open)
    /\ WF_vars(Prove_return)

FairSpec == Spec /\ Fairness

\* the variables of Prove
proverVars == << witness, pc, closedBy, cancelled, gErr, stageErr, firstErr,
                 x, bp, proof, lro, chal, fsLRO, trace, fs, pk, qk, h, result,
                 crashed >>

\* Setup is called with any circuit and SRS; Prove has not started
SetupInit ==
    /\ \E c \in Circuits : \E l \in SRSLens(c) : su = SetupStart(c, l)
    /\ witness = [typeOK |-> TRUE, vals |-> << 0, 0 >>, cap |-> 2]
    /\ call = NoCall
    /\ InitProver

SetupNext ==
    \/ Setup_initFFTDomain /\ UNCHANGED << proverVars, call >>
    \/ Setup_checkSRS /\ UNCHANGED << proverVars, call >>
    \/ Setup_setVk /\ UNCHANGED << proverVars, call >>
    \/ Setup_NewTrace /\ UNCHANGED << proverVars, call >>
    \/ Setup_commitTrace /\ UNCHANGED << proverVars, call >>
    \/ newInstance_domains /\ UNCHANGED << proverVars, call >>
    \/ prover_bsb22Hint /\ UNCHANGED << proverVars, call >>
    \/ prover_commitToLRO /\ UNCHANGED << proverVars, call >>
    \/ prover_commitZ /\ UNCHANGED << proverVars, call >>
    \/ computeQuotient_split /\ UNCHANGED << proverVars, call >>
    \/ prover_commitToQuotient /\ UNCHANGED << proverVars, call >>
    \/ prover_batchOpening /\ UNCHANGED << proverVars, call >>

SetupSpec == SetupInit /\ [][SetupNext]_vars

(***************************************************************************)
(* Accesses to the slots of x and bp made by the next step of a goroutine. *)
(***************************************************************************)
\* the slots the next step of goroutine p writes
Writes(p) ==
    CASE p = "solveConstraints" /\ pc[p] = "setLRO" -> { "id_L", "id_R", "id_O" }
      [] p \in Cols /\ pc[p] = "run" -> { XCol(p) }
      [] p = "completeQk" /\ pc[p] = "write" -> { "id_Qk" }
      [] p = "initBlindingPolynomials" /\ pc[p] = "init" -> BSlots
      [] p = "buildRatioCopyConstraint" /\ pc[p] = "build" ->
           { "id_L", "id_R", "id_O", "id_Z" }
      [] p = "buildRatioCopyConstraint"
           /\ pc[p] \in { "commitZEntangled", "commitZ" } -> { "id_Z" }
      [] p = "computeQuotient" /\ pc[p] = "init" ->
           { "id_Ql", "id_Qr", "id_Qm", "id_Qo", "id_S1", "id_S2", "id_S3" }
      [] p = "computeQuotient" /\ pc[p] = "alpha" -> { "id_ID", "id_LOne", "id_ZS" }
      [] p = "computeQuotient" /\ pc[p] = "numerator" -> XSlots \cup BSlots
      [] p = Restore /\ pc[p] = "run" -> XSlots \cup BSlots
      [] p = "batchOpening" /\ pc[p] = "open" ->
           { "id_L", "id_R", "id_O", "id_Z",
             "id_Ql", "id_Qr", "id_Qm", "id_Qo", "id_S1", "id_S2", "id_S3" }
      [] OTHER -> {}

\* the slots the next step of goroutine p reads
Reads(p) ==
    CASE p \in Cols /\ pc[p] = "run" -> { BCol(p) }
      [] p = "buildRatioCopyConstraint"
           /\ pc[p] \in { "commitZEntangled", "commitZ" } -> { "id_Bz" }
      [] p = "computeQuotient" /\ pc[p] = "alpha" -> { "id_Z" }
      [] p = "batchOpening" /\ pc[p] = "open" -> BSlots
      [] OTHER -> {}

\* the stage a goroutine belongs to
StageOf(p) ==
    CASE p \in Cols -> "solveConstraints"
      [] p = Restore -> "computeQuotient"
      [] OTHER -> p

\* the stage that owns each completion channel
Owner(ch) ==
    CASE ch = "chbp" -> "initBlindingPolynomials"
      [] ch = "chLRO" -> "solveConstraints"
      [] ch = "chQk" -> "completeQk"
      [] ch = "chGammaBeta" -> "deriveGammaAndBeta"
      [] ch = "chZ" -> "buildRatioCopyConstraint"
      [] ch = "chRestoreLRO" -> Restore
      [] ch = "chH" -> "computeQuotient"

\* the positions at which a stage waits in a select, and the channel awaited
Awaited(p, l) ==
    CASE p = "solveConstraints" /\ l = "waitbp" -> "chbp"
      [] p = "completeQk" /\ l = "waitLRO" -> "chLRO"
      [] p = "deriveGammaAndBeta" /\ l = "waitLRO" -> "chLRO"
      [] p = "buildRatioCopyConstraint" /\ l = "waitGammaBeta" -> "chGammaBeta"
      [] p = "computeQuotient" /\ l = "waitLRO" -> "chLRO"
      [] p = "computeQuotient" /\ l = "waitZ" -> "chZ"
      [] p = "computeQuotient" /\ l = "waitQk" -> "chQk"
      [] p = "computeQuotient" /\ l = "waitRestore" -> "chRestoreLRO"
      [] p = "batchOpening" /\ l = "waitLRO" -> "chLRO"
      [] p = "batchOpening" /\ l = "waitH" -> "chH"
      [] OTHER -> "nothing"

Waiting(p) == Awaited(p, pc[p]) # "nothing"

Returned == result.status = "returned"

Succeeded == Returned /\ result.err = ErrNone

SomeStageFailed == \E p \in Stages : stageErr[p] # ErrNone


(***************************************************************************)
(* Claims                                                                  *)
(***************************************************************************)

\* C1: completion signals fire in an order consistent with the dependency
\* graph: chbp before chLRO, chLRO before chGammaBeta and before chQk,
\* chGammaBeta before chZ, and both chZ and chQk before chH.  A closed channel
\* stays closed, so "a before b" is "b closed implies a closed".
C1_SignalOrder ==
    /\ Closed("chLRO") => Closed("chbp")
    /\ Closed("chGammaBeta") => Closed("chLRO")
    /\ Closed("chZ") => Closed("chGammaBeta")
    /\ Closed("chQk") => Closed("chLRO")
    /\ Closed("chH") => (Closed("chZ") /\ Closed("chQk"))

C1_Witness == Closed("chH") /\ Closed("chQk") /\ Closed("chZ")

\* C2: when chLRO fires, proof.LROEntangled is the sum of the three finished
\* column commitments, and what deriveGammaAndBeta binds to gamma is that sum.
C2_LROEntangledComplete ==
    /\ Closed("chLRO") => \A c \in Cols : proof.LROEntangled[c] = "val"
    /\ fsLRO # << >> => \A c \in Cols : fsLRO[1][c] = "val"

\* C3: batchOpening computes the folded digests and calls BatchOpen only after
\* chLRO and chH have fired, hence after L, R, O, Z, H, their commitments and
\* zeta have been written.
C3_OpenAfterAll ==
    (pc["batchOpening"] = "open" \/ proof.BatchOpeningProof # "unset") =>
        /\ Closed("chLRO") /\ Closed("chH")
        /\ \A s \in { "id_L", "id_R", "id_O", "id_Z" } : x[s] = "set"
        /\ h = "set"
        /\ \A c \in Cols : proof.LROEntangled[c] # "unset"
        /\ proof.ZEntangled # "unset" /\ proof.Z # "unset"
        /\ proof.HEntangled # "unset"
        /\ "zeta" \in chal

C3_Witness == pc["batchOpening"] = "open" /\ crashed = "no"

\* C4: under fair scheduling every call of Prove terminates: all seven stages
\* return (with success, or after the first failure) and Prove returns; no
\* stage waits forever on a completion signal.
C4_Terminates ==
    <>(Returned /\ \A p \in Stages : pc[p] = "done")

\* what the code does guarantee: a run in which no goroutine panics ends with
\* every stage returned and Prove returned
NoDeadlock ==
    <>(crashed # "no" \/ (Returned /\ \A p \in Stages : pc[p] = "done"))

\* C5: once the context is cancelled, a stage that leaves a wait for a
\* predecessor signal leaves it by returning the 'context done' error and
\* writes nothing, whether or not the awaited signal has fired too.
C5_AbortOnCancel ==
    [][\A p \in Stages :
         (cancelled /\ Waiting(p) /\ pc'[p] # pc[p]) =>
             /\ pc'[p] = "done"
             /\ stageErr'[p] = errContextDone
             /\ x' = x /\ bp' = bp /\ proof' = proof]_vars

\* C6: when a stage fails, Prove returns a nil proof and one error, the error
\* of the stage that failed first, never the 'context done' error.
C6_FirstError ==
    (Returned /\ SomeStageFailed) =>
        /\ result.proof = "nil"
        /\ result.err = firstErr
        /\ result.err \notin { ErrNone, errContextDone }

C6_Witness ==
    /\ Returned
    /\ Cardinality({ p \in Stages : stageErr[p] = errContextDone }) >= 2

\* the witness [y, x] violates the gate x*x == y
ViolatesGate(w) == FrMul(w.vals[2], w.vals[2]) # w.vals[1]

C8_NoSignalOnError ==
    \A ch \in { "chLRO", "chQk", "chGammaBeta", "chZ", "chH" } :
        stageErr[Owner(ch)] # ErrNone => ~Closed(ch)

\* C9: each completion signal is fired by one goroutine only and at most once
\* (no channel is closed twice), and exactly once in a successful execution.
C9_OneShot ==
    /\ crashed # "close of closed channel"
    /\ \A ch \in Chans : closedBy[ch] \in { "nobody", Owner(ch) }
    /\ Succeeded => \A ch \in Chans : Closed(ch)

C9_Witness == Succeeded /\ \A ch \in Chans : Closed(ch)

\* C10: no two goroutines are about to access the same slot of x or of bp with
\* one of the accesses a write: the completion signals alone serialise them.
C10_NoRace ==
    \A p, q \in Procs :
        p # q => Writes(p) \cap (Writes(q) \cup Reads(q)) = {}

\* the scale-back goroutine is rewriting x while batchOpening, which reads the
\* same slots, is alive and held back by chH
C10_Witness ==
    /\ pc[Restore] = "run" /\ Writes(Restore) # {}
    /\ pc["batchOpening"] = "waitH"
    /\ ~cancelled

\* C11: the trace is immutable during proving: every polynomial of the trace
\* keeps the basis, layout and coefficients NewTrace gave it, in every state.
C11_TraceImmutable == trace = NewTrace

\* C11 as amended: the rows NewTrace computed are never overwritten, and when
\* Prove returns a proof every polynomial of the trace is the polynomial
\* NewTrace produced (no coset scaling left), held in canonical basis and
\* regular layout.
C11_TraceRestored ==
    /\ \A p \in TracePolys : trace[p].data = "NewTrace"
    /\ Succeeded =>
          \A p \in TracePolys :
              trace[p] = [basis |-> "Canonical", layout |-> "Regular",
                          shift |-> 0, data |-> "NewTrace"]

C11_Witness == Succeeded /\ trace # NewTrace /\ pc[Restore] = "done"

\* the order of the operations on the transcript
FixedOrder ==
    << Bind("gamma", "public"), Bind("gamma", "LROEntangled"),
       ComputeChallenge("gamma"), ComputeChallenge("beta"),
       Bind("alpha", "ZEntangled"), ComputeChallenge("alpha"),
       Bind("zeta", "HEntangled"), ComputeChallenge("zeta") >>

\* the next step of goroutine p operates on the transcript
FsAccess(p) ==
    \/ p = "deriveGammaAndBeta" /\ pc[p] \in { "bind", "derive" }
    \/ p = "computeQuotient" /\ pc[p] \in { "alpha", "zeta" }

\* C12: the operations on the transcript are made in the one fixed order
\* (what has been done so far is a prefix of it, all of it when Prove returns
\* a proof), and no two goroutines operate on the transcript at the same time.
C12_TranscriptOrder ==
    /\ Len(fs) <= Len(FixedOrder) /\ fs = SubSeq(FixedOrder, 1, Len(fs))
    /\ Succeeded => fs = FixedOrder
    /\ \A p, q \in Procs : p # q => ~(FsAccess(p) /\ FsAccess(q))

C12_Witness == Succeeded /\ fs = FixedOrder /\ chal = { "gamma", "beta", "alpha", "zeta" }

\* C13: when Prove returns a proof, every stage and every helper goroutine
\* (the scale-back goroutine included) has finished, so nothing writes to the
\* proof or the instance afterwards, and every field of the proof has been
\* written by its stage.
C13_ProofComplete ==
    Succeeded =>
        /\ \A p \in Stages : pc[p] = "done" /\ stageErr[p] = ErrNone
        /\ \A c \in Cols : pc[c] = "ok"
        /\ pc[Restore] = "done"
        /\ \A c \in Cols : proof.LROEntangled[c] # "unset"
        /\ proof.Z = "val" /\ proof.ZEntangled = "val"
        /\ proof.HEntangled = "val" /\ proof.BatchOpeningProof = "val"

C13_Witness ==
    Succeeded /\ result.proof = "proof" /\ proof.BatchOpeningProof = "val"

\* C14: for a witness of the wrong type, or with fewer entries than the
\* circuit has public inputs, Prove does not crash and returns an error and
\* no proof.
C14_InvalidWitnessRejected ==
    (~witness.typeOK \/ Len(witness.vals) < NbPublicVariables) =>
        /\ crashed = "no"
        /\ Returned => (result.proof = "nil" /\ result.err # ErrNone)

\* C15: Prove does not change the proving key: the commitment key and the
\* embedded verifying key stay what they were at the call, in every state of
\* a successful or failed run.
C15_KeyUnchanged == pk = [Kzg |-> "srs", Vk |-> "vk"]

C15_Witness ==
    /\ Returned
    /\ proof.ZEntangled # "unset"
    /\ \E c \in Cols : lro[c] = "val"

\* C20: completeQk publishes the trace's Qk with the public inputs on the
\* placeholder rows 0..nbPublic-1 (the circuit has no custom-gate commitment
\* row), and no step of completeQk changes the trace.
C20_CompleteQk ==
    /\ [](Closed("chQk") =>
            qk = [i \in 1 .. Len(TraceQk) |->
                    IF i <= NbPublicVariables THEN witness.vals[i]
                    ELSE TraceQk[i]])
    /\ [][pc'["completeQk"] # pc["completeQk"] => trace' = trace]_vars

C20_Witness == Closed("chQk") /\ x["id_Qk"] = "set" /\ qk[1] # TraceQk[1]



(***************************************************************************)
(* Blinding: getRandomPolynomial, getBlindedCoefficients,                  *)
(* commitBlindingFactor and commitToEntangledPolyAndBlinding, each called  *)
(* on its own with polynomials in canonical form.                          *)
(***************************************************************************)
FrSub(a, b) == FrAdd(a, FrNeg(b))

RECURSIVE FrPow(_, _)
\* fr.Element.Exp, by squaring
FrPow(a, e) ==
    IF e = 0 THEN 1
    ELSE LET half == FrPow(a, e \div 2)
             sq == FrMul(half, half)
         IN  IF e % 2 = 1 THEN FrMul(sq, a) ELSE sq

\* a slice or an array of the program: its entries are computed once, when
\* it is built
Stored(f) == f @@ << >>

\* fft.BuildExpTable: 1, w, w^2, .. (len entries)
BuildExpTable(w, len) == Stored([i \in 1 .. len |-> FrPow(w, i - 1)])

RECURSIVE dftSum(_, _, _, _, _)
\* the sum over the entries lo..hi of v of v[i] * tab[(i-1)*k mod len]
dftSum(v, tab, k, lo, hi) ==
    IF lo = hi THEN FrMul(v[lo], tab[(((lo - 1) * k) % Len(v)) + 1])
    ELSE LET mid == (lo + hi) \div 2
         IN  FrAdd(dftSum(v, tab, k, lo, mid), dftSum(v, tab, k, mid + 1, hi))

\* iop.Polynomial.Evaluate of a polynomial in canonical form: the sum of
\* c[i] * z^i, 0 for a polynomial without coefficient
PolyEval(c, z) ==
    IF Len(c) = 0 THEN 0
    ELSE dftSum(c, BuildExpTable(z, Len(c)), 1, 1, Len(c))

\* the cardinalities of the small domain the functions are called with
BlindSizes == {1, 2, 4}

\* the orders of blinding: -1 deactivates it, 1 and 2 are the orders the code
\* names
BlindingOrders == {-1, 0, 1, 2}

\* the coefficients the polynomials are made of
CoeffVals == 0 .. MaxVal

\* return a random polynomial of degree n; rnd is what SetRandom yields.
\* With n == -1 the slice filled is a new one that shadows a: a stays nil.
getRandomPolynomial(n, rnd) ==
    IF n = -1 THEN << >> ELSE [i \in 1 .. (n + 1) |-> rnd[i]]

\* a mutated getBlindedCoefficients that appends b without subtracting it
getBlindedCoefficientsNoSub(p, b) == p \o b

\* cp = append(p, b...), then cp[i] -= b[i] for every i < len(b)
getBlindedCoefficients(p, b) ==
    LET cp == p \o b
    IN  [i \in 1 .. Len(cp) |-> IF i <= Len(b) THEN FrSub(cp[i], b[i]) ELSE cp[i]]

\* p's own coefficients after getBlindedCoefficients: append writes in p's
\* array when its capacity allows, and the subtraction then changes p
underlyingAfter(p, cap, b) ==
    IF cap >= Len(p) + Len(b)
    THEN SubSeq(getBlindedCoefficients(p, b), 1, Len(p))
    ELSE p

\* a digest: the points of the key it is made of, each with its scalar
\* (a set of << index in pk.Kzg.G1, scalar >> with one entry per index)
ScalarAt(d, k) == IF \E tm \in d : tm[1] = k
                  THEN (CHOOSE tm \in d : tm[1] = k)[2] ELSE 0

\* G1Affine.Add and G1Affine.Sub
DigestAdd(d1, d2) ==
    LET idx == { tm[1] : tm \in d1 \cup d2 }
    IN  { tm \in { << k, FrAdd(ScalarAt(d1, k), ScalarAt(d2, k)) >> : k \in idx } :
          tm[2] # 0 }

DigestSub(d1, d2) ==
    LET idx == { tm[1] : tm \in d1 \cup d2 }
    IN  { tm \in { << k, FrSub(ScalarAt(d1, k), ScalarAt(d2, k)) >> : k \in idx } :
          tm[2] # 0 }

\* MultiExp of the points g (indices in pk.Kzg.G1) with the scalars cp
MultiExp(g, cp) ==
    { tm \in { << g[i], cp[i] % FieldP >> : i \in 1 .. Len(cp) } : tm[2] # 0 }

\* kzg.Commit(p, key): the first len(p) points of the key with p's coefficients
Commit(p, key) == MultiExp(SubSeq(key, 1, Len(p)), p)

\* pk.Kzg.G1 with len points, each named by its index
G1(len) == [k \in 1 .. len |-> k - 1]

\* commits to b*(X^n - 1): hi - lo over key.G1[n:n+np] and key.G1[:np]
commitBlindingFactor(n, b, key) ==
    LET np == Len(b)
        lo == MultiExp(SubSeq(key, 1, np), b)
        hi == MultiExp(SubSeq(key, n + 1, n + np), b)
    IN  DigestSub(hi, lo)

\* the sub-key of a slot: len points pk.Kzg.G1[i*t+id]
subKey(key, t, id, len) == [i \in 1 .. len |-> key[(i - 1) * t + id + 1]]

\* commitToEntangledPolyAndBlinding: kzg.Commit(p, subPk) plus
\* commitBlindingFactor(n, b, s.pk.Kzg), n the cardinality of the small domain
commitToEntangledPolyAndBlindingDigest(p, b, id, t, key) ==
    LET commit == Commit(p, subKey(key, t, id, Len(p)))
        cb == commitBlindingFactor(Len(p), b, key)
    IN  DigestAdd(commit, cb)

\* the length of the SRS of these calls: enough for the sub-key of a
\* polynomial of 4 coefficients blinded at order 2
BlindSRSLen == number_polynomials * (4 + 3 + 1)

\* the polynomials p the functions are called with
BlindP == UNION { [1 .. n -> CoeffVals] : n \in BlindSizes }

\* the blinding polynomials, and the random draws of getRandomPolynomial
BlindB == UNION { [1 .. (o + 1) -> CoeffVals] : o \in BlindingOrders }

\* a call before it runs
BlindCall(fn, args) == [fn |-> fn, args |-> args, done |-> FALSE, out |-> << >>]

call_getRandomPolynomial ==
    /\ call.fn = "getRandomPolynomial" /\ ~call.done
    /\ call' = [call EXCEPT !.done = TRUE,
                            !.out = getRandomPolynomial(call.args.n, call.args.rnd)]

call_getBlindedCoefficients ==
    /\ call.fn = "getBlindedCoefficients" /\ ~call.done
    /\ call' = [call EXCEPT !.done = TRUE,
                            !.out = [cp |-> getBlindedCoefficients(call.args.p, call.args.b),
                                     p |-> underlyingAfter(call.args.p, call.args.cap,
                                                           call.args.b)]]

call_commitToEntangledPolyAndBlinding ==
    /\ call.fn = "commitToEntangledPolyAndBlinding" /\ ~call.done
    /\ LET t == getNextDivisorRMinusOne(su.vkQcp)
       IN  call' = [call EXCEPT !.done = TRUE,
                     !.out = commitToEntangledPolyAndBlindingDigest(
                               call.args.p, call.args.b, call.args.id, t,
                               G1(BlindSRSLen))]

\* the calls: every order with every random draw; every p with every b of
\* at most len(p) coefficients, p's array with or without spare capacity;
\* the slots of L and Z
BlindInit ==
    /\ \/ \E rnd \in BlindB :
             call = BlindCall("getRandomPolynomial",
                              [n |-> Len(rnd) - 1, rnd |-> rnd])
       \/ \E p \in BlindP, b \in BlindB, spare \in {0, 4} :
             /\ Len(b) <= Len(p)
             /\ call = BlindCall("getBlindedCoefficients",
                                 [p |-> p, b |-> b, cap |-> Len(p) + spare])
       \/ \E p \in BlindP, b \in BlindB, id \in {prover_l, prover_z} :
             /\ Len(b) <= Len(p)
             /\ call = BlindCall("commitToEntangledPolyAndBlinding",
                                 [p |-> p, b |-> b, id |-> id])
    /\ su = ToySetup
    /\ witness = [typeOK |-> TRUE, vals |-> << 0, 0 >>, cap |-> 2]
    /\ InitProver

BlindNext ==
    \/ call_getRandomPolynomial /\ UNCHANGED << proverVars, su >>
    \/ call_getBlindedCoefficients /\ UNCHANGED << proverVars, su >>
    \/ call_commitToEntangledPolyAndBlinding /\ UNCHANGED << proverVars, su >>

BlindSpec == BlindInit /\ [][BlindNext]_vars

(***************************************************************************)
(* Quotient: computeQuotient's call of computeNumerator followed by        *)
(* divideByXMinusOne, on the polynomials of a solved circuit.  The fft     *)
(* domains are those of the toy field: the coset shift generates the       *)
(* multiplicative group and the generator of a domain of card points is    *)
(* a primitive card-th root of unity.                                      *)
(***************************************************************************)
\* fft.Domain.FrMultiplicativeGen, the coset shift (5 for bn254, and a
\* generator of the multiplicative group of the toy field)
FrMultiplicativeGen == 5

\* fft.Domain.Generator of the domain of card points
Generator(card) == FrPow(FrMultiplicativeGen, (FieldP - 1) \div card)

RECURSIVE Log2(_)
Log2(m) == IF m <= 1 THEN 0 ELSE 1 + Log2(m \div 2)

RECURSIVE reverseBits(_, _, _)
\* the nbits low bits of k in reverse order, onto acc
reverseBits(k, nbits, acc) ==
    IF nbits = 0 THEN acc
    ELSE reverseBits(k \div 2, nbits - 1, 2 * acc + (k % 2))

\* bits.Reverse64(uint64(k)) >> (64 - bits.TrailingZeros64(m)), m a power of 2
bitReverse(k, m) == reverseBits(k, Log2(m), 0)

\* Domain.FFT: the values on 1, w, w^2, .. of the polynomial of coefficients c
FFT(c, w) ==
    LET tab == BuildExpTable(w, Len(c))
    IN  Stored([k \in 1 .. Len(c) |-> dftSum(c, tab, k - 1, 1, Len(c))])

\* Domain.FFTInverse: the coefficients of the polynomial of values v
FFTInverse(v, w) ==
    LET tab == BuildExpTable(FrInv(w), Len(v))
        cardInv == FrInv(Len(v) % FieldP)
    IN  Stored([k \in 1 .. Len(v) |->
                  FrMul(cardInv, dftSum(v, tab, k - 1, 1, Len(v)))])

\* fft.BitReverse of a vector of m entries
BitReverse(v) ==
    Stored([k \in 1 .. Len(v) |-> v[bitReverse(k - 1, Len(v)) + 1]])

\* a polynomial of x: its basis and its coefficients in regular layout
Poly(basis, c) == [basis |-> basis, c |-> c]

\* iop.Polynomial.ToCanonical(domain).ToRegular(): nothing to do in canonical
\* basis, the inverse fft in Lagrange basis, the inverse fft and the scaling
\* by the powers of the inverse of the shift in LagrangeCoset basis
ToCanonical(p, card) ==
    CASE p.basis = "Canonical" -> p
      [] p.basis = "Lagrange" ->
           Poly("Canonical", FFTInverse(p.c, Generator(card)))
      [] p.basis = "LagrangeCoset" ->
           LET cc == FFTInverse(p.c, Generator(card))
               sInv == BuildExpTable(FrInv(FrMultiplicativeGen), card)
           IN  Poly("Canonical",
                    Stored([k \in 1 .. card |-> FrMul(cc[k], sInv[k])]))

\* iop.Polynomial.ToLagrange(domain).ToRegular() of a polynomial in canonical
\* basis
ToLagrange(p, card) == Poly("Lagrange", FFT(p.c, Generator(card)))

\* the gates of the circuits: the coefficients (QL, QR, QM, QO, QC) of
\* L*R - O = 0 and of L + R - O = 0
GateCoeffs(kind) ==
    IF kind = "mul"
    THEN [ql |-> 0, qr |-> 0, qm |-> 1, qo |-> FieldP - 1, qk |-> 0]
    ELSE [ql |-> 1, qr |-> 1, qm |-> 0, qo |-> FieldP - 1, qk |-> 0]

\* the gates of a circuit of nbC constraints: all products, or a product and
\* a sum one after the other
GatePatterns(nbC) ==
    { [j \in 1 .. nbC |-> "mul"],
      [j \in 1 .. nbC |-> IF j % 2 = 1 THEN "mul" ELSE "add"] }

\* the cardinalities of the small domain the quotient is computed on
QuotientCards == {2, 4, 8}

\* the numbers of constraints of the circuits the quotient is computed for:
\* with the public inputs they give each cardinality of QuotientCards
QuotientSizes == {2, 3, 5}

\* the circuits the quotient is computed for: those Setup accepts, without
\* custom gate, with their gates; the wiring is that of PatternWires
QuotientCircuits ==
    { c \in UNION { { [nbPublic |-> p, wires |-> PatternWires(k, d),
                       nbQcp |-> 0, gates |-> g] :
                        p \in 0 .. MaxPublic, d \in {0, 1},
                        g \in GatePatterns(k) } : k \in QuotientSizes } :
        initFFTDomain(c) \in QuotientCards }

\* NewTrace: the column of a selector, -1 (ql) or 0 on the placeholder rows
\* of the public inputs, the coefficient of each constraint after them, 0 on
\* the padding rows
selectorColumn(c, sel, card) ==
    Stored([i \in 1 .. card |->
              IF i <= c.nbPublic THEN (IF sel = "ql" THEN FieldP - 1 ELSE 0)
              ELSE IF i - c.nbPublic <= Len(c.wires)
                   THEN GateCoeffs(c.gates[i - c.nbPublic])[sel]
                   ELSE 0])

\* completeQk: the clone of trace.Qk with the public inputs copied over the
\* placeholder rows
completedQk(c, sol, card) ==
    LET col == selectorColumn(c, "qk", card)
    IN  Stored([i \in 1 .. card |-> IF i <= c.nbPublic THEN sol[i] ELSE col[i]])

\* getSupportPermutation: <g> || u<g> || u^2<g>
getSupportPermutation(card) ==
    Stored([i \in 1 .. 3 * card |->
              FrMul(FrPow(FrMultiplicativeGen, (i - 1) \div card),
                    FrPow(Generator(card), (i - 1) % card))])

\* computePermutationPolynomials: the values of S1, S2, S3 (col = 0, 1, 2)
computePermutationPolynomials(S, col, card) ==
    LET support == getSupportPermutation(card)
    IN  Stored([i \in 1 .. card |-> support[S[col * card + i] + 1]])

\* the solver's L, R, O (col = 0, 1, 2): the value of the variable each
\* position of buildPermutation's table refers to
solutionLRO(c, sol, col, card) ==
    LET lroT == lroTable(c, card)
    IN  Stored([i \in 1 .. card |-> sol[lroT[col * card + i] + 1]])

\* the gate of row i holds of the values l, r, o of the solution on the row
rowSatisfied(sel, Qk, l, r, o, i) ==
    FrAdd(FrAdd(FrAdd(FrAdd(FrMul(sel["ql"][i], l[i]),
                            FrMul(sel["qr"][i], r[i])),
                      FrMul(FrMul(sel["qm"][i], l[i]), r[i])),
                FrMul(sel["qo"][i], o[i])),
          Qk[i]) = 0

\* Solve returned no error: every constraint holds of the solution
Solved(c, sol) ==
    LET card == initFFTDomain(c)
        sel == Stored([q \in {"ql", "qr", "qm", "qo"} |->
                         selectorColumn(c, q, card)])
        Qk == completedQk(c, sol, card)
        l == solutionLRO(c, sol, 0, card)
        r == solutionLRO(c, sol, 1, card)
        o == solutionLRO(c, sol, 2, card)
    IN  \A i \in 1 .. card : rowSatisfied(sel, Qk, l, r, o, i)

RECURSIVE ratioFrom(_, _, _, _, _, _, _, _)
\* iop.BuildRatioCopyConstraint: Z[0] = 1 and Z[i+1] = Z[i] * a_i / b_i with
\* a_i the product over the columns of gamma + f[i] + beta*id[i] and b_i that
\* of gamma + f[i] + beta*id[S[i]] (the inverse of 0 is 0)
ratioFrom(f, S, support, beta, gamma, card, i, acc) ==
    IF i >= card THEN acc
    ELSE LET a(col) == FrAdd(FrAdd(gamma, f[col + 1][i]),
                             FrMul(beta, support[col * card + i]))
             b(col) == FrAdd(FrAdd(gamma, f[col + 1][i]),
                             FrMul(beta, support[S[col * card + i] + 1]))
             num == FrMul(FrMul(a(0), a(1)), a(2))
             den == FrMul(FrMul(b(0), b(1)), b(2))
         IN  ratioFrom(f, S, support, beta, gamma, card, i + 1,
                       Append(acc, FrMul(acc[i], FrMul(num, FrInv(den)))))

BuildRatioCopyConstraint(f, S, beta, gamma, card) ==
    ratioFrom(f, S, getSupportPermutation(card), beta, gamma, card, 1, << 1 >>)

\* the challenges beta, gamma and alpha of the transcript: they are derived
\* from the commitments, which the blinding polynomials b are part of
Challenges(b) ==
    IF \A s \in DOMAIN b : Len(b[s]) = 0
    THEN { [beta |-> 3, gamma |-> 7, alpha |-> 11] }
    ELSE { [beta |-> FieldP - 2, gamma |-> 100, alpha |-> 58] }

\* the blinding polynomials: those of the build (every order is -1, and
\* getRandomPolynomial gives a polynomial without coefficient), or those of
\* the orders 1, 1, 1, 2 with coefficients up to MaxVal
BlindingPolynomials ==
    { [s \in BSlots |-> getRandomPolynomial(-1, << >>)],
      [s \in BSlots |->
         CASE s = "id_Bl" -> getRandomPolynomial(1, << MaxVal, 1 >>)
           [] s = "id_Br" -> getRandomPolynomial(1, << 1, MaxVal >>)
           [] s = "id_Bo" -> getRandomPolynomial(1, << MaxVal, MaxVal >>)
           [] s = "id_Bz" -> getRandomPolynomial(2, << 1, MaxVal, 2 >>)] }

\* the polynomials of x computeNumerator works on (x[id_ZS] is x[id_Z] read
\* one row further): the trace in Lagrange basis, L, R, O and Z in the
\* canonical basis their commitment left them in, beta*X in canonical basis
\* and the first Lagrange polynomial
quotientPolys(c, sol, ch) ==
    LET card == initFFTDomain(c)
        S == Stored(buildPermutation(c, card, MaxVars))
        f == Stored([col \in 1 .. 3 |-> solutionLRO(c, sol, col - 1, card)])
        lag(v) == Poly("Lagrange", v)
        can(v) == ToCanonical(lag(v), card)
    IN  Stored([s \in XSlots \ {"id_ZS"} |->
          CASE s = "id_Ql" -> lag(selectorColumn(c, "ql", card))
            [] s = "id_Qr" -> lag(selectorColumn(c, "qr", card))
            [] s = "id_Qm" -> lag(selectorColumn(c, "qm", card))
            [] s = "id_Qo" -> lag(selectorColumn(c, "qo", card))
            [] s = "id_Qk" -> lag(completedQk(c, sol, card))
            [] s = "id_S1" -> lag(computePermutationPolynomials(S, 0, card))
            [] s = "id_S2" -> lag(computePermutationPolynomials(S, 1, card))
            [] s = "id_S3" -> lag(computePermutationPolynomials(S, 2, card))
            [] s = "id_L" -> can(f[1])
            [] s = "id_R" -> can(f[2])
            [] s = "id_O" -> can(f[3])
            [] s = "id_Z" ->
                 can(BuildRatioCopyConstraint(f, S, ch.beta, ch.gamma, card))
            [] s = "id_ID" ->
                 Poly("Canonical",
                      [i \in 1 .. card |-> IF i = 2 THEN ch.beta ELSE 0])
            [] s = "id_LOne" ->
                 lag([i \in 1 .. card |-> IF i = 1 THEN 1 ELSE 0])])

\* bp <- bp * ((s*w^i)^n - 1), coefficient j by the power j of the shifter too
scaleBlinding(b, tmp, shifter) ==
    Stored([s \in DOMAIN b |->
              Stored([j \in 1 .. Len(b[s]) |->
                        FrMul(b[s][j], FrMul(tmp, FrPow(shifter, j - 1)))])])

\* bp <- bp / ((s*w^i)^n - 1)
unscaleBlinding(b, tmp) ==
    LET tmpInv == FrInv(tmp)
    IN  Stored([s \in DOMAIN b |->
                  Stored([j \in 1 .. Len(b[s]) |-> FrMul(b[s][j], tmpInv)])])

\* a mutated index that drops one bit of the reversed index
cresIndexShort(rhoV, j, i, card1) == bitReverse(rhoV * j + i, card1) \div 2

\* the index of the scaled polynomial's value j of coset i in the result
cresIndex(rhoV, j, i, card1) == bitReverse(rhoV * j + i, card1)

\* batchApply's function: to canonical basis, scaled by the scaling vector,
\* back to Lagrange basis on the small domain
cosetShift(p, scalingVector, card) ==
    LET cp == ToCanonical(p, card).c
    IN  ToLagrange(Poly("Canonical",
                        Stored([j \in 1 .. card |->
                                  FrMul(cp[j], scalingVector[j])])),
                   card)

\* gateConstraint: ql*l + qr*r + qm*l*r + qo*o + qk (no custom gate)
gateConstraint(u) ==
    FrAdd(FrAdd(FrAdd(FrAdd(FrMul(u["id_Ql"], u["id_L"]),
                            FrMul(u["id_Qr"], u["id_R"])),
                      FrMul(FrMul(u["id_Qm"], u["id_L"]), u["id_R"])),
                FrMul(u["id_Qo"], u["id_O"])),
          u["id_Qk"])

\* orderingConstraint: (s1+l+gamma)(s2+r+gamma)(s3+o+gamma)*zs
\*                   - (l+id+gamma)(r+id*cs+gamma)(o+id*cs^2+gamma)*z
orderingConstraint(u, gamma) ==
    LET cs == FrMultiplicativeGen
        css == FrMul(cs, cs)
        a1 == FrAdd(FrAdd(gamma, u["id_L"]), u["id_ID"])
        b1 == FrAdd(FrAdd(FrMul(u["id_ID"], cs), u["id_R"]), gamma)
        c1 == FrAdd(FrAdd(FrMul(u["id_ID"], css), u["id_O"]), gamma)
        r == FrMul(FrMul(FrMul(a1, b1), c1), u["id_Z"])
        a2 == FrAdd(FrAdd(u["id_S1"], u["id_L"]), gamma)
        b2 == FrAdd(FrAdd(u["id_S2"], u["id_R"]), gamma)
        c2 == FrAdd(FrAdd(u["id_S3"], u["id_O"]), gamma)
        l == FrMul(FrMul(FrMul(a2, b2), c2), u["id_ZS"])
    IN  FrSub(l, r)

\* ratioLocalConstraint: (z - 1) * lone
ratioLocalConstraint(u) == FrMul(FrSub(u["id_Z"], 1), u["id_LOne"])

\* allConstraints on row i (0-based): S1, S2, S3 scaled by beta, L, R, O, Z
\* and ZS blinded, then (ratio*alpha + ordering)*alpha + gate
allConstraints(i, u0, b, ch, twiddles0, card) ==
    LET y(s, k) == PolyEval(b[s], twiddles0[k + 1])
        u == Stored([s \in DOMAIN u0 |->
                CASE s \in {"id_S1", "id_S2", "id_S3"} -> FrMul(u0[s], ch.beta)
                  [] s = "id_L" -> FrAdd(u0[s], y("id_Bl", i))
                  [] s = "id_R" -> FrAdd(u0[s], y("id_Br", i))
                  [] s = "id_O" -> FrAdd(u0[s], y("id_Bo", i))
                  [] s = "id_Z" -> FrAdd(u0[s], y("id_Bz", i))
                  [] s = "id_ZS" -> FrAdd(u0[s], y("id_Bz", (i + 1) % card))
                  [] OTHER -> u0[s]])
        a == gateConstraint(u)
        bb == orderingConstraint(u, ch.gamma)
        c == ratioLocalConstraint(u)
    IN  FrAdd(FrMul(FrAdd(FrMul(c, ch.alpha), bb), ch.alpha), a)

\* iop.Evaluate: row j of every polynomial of x, x[id_ZS] being x[id_Z]
\* shifted by one row
rowOf(xs, j, card) ==
    Stored([s \in XSlots |->
              IF s = "id_ZS" THEN xs["id_Z"].c[((j + 1) % card) + 1]
              ELSE xs[s].c[j + 1]])

\* a mutated table index that does not undo the bit-reversed layout
xnMinusOneIndexRegular(i, len, rhoV) == i % rhoV

\* divideByXMinusOne: the entry of the table that entry i of the numerator
\* is multiplied by
xnMinusOneIndex(i, len, rhoV) == bitReverse(i, len) % rhoV

\* a mutated table whose last entry is not decremented before the inversion
evaluateXnMinusOneLastNotSub(card, card1) ==
    LET res0 == FrPow(FrMultiplicativeGen, card)
        t == FrPow(Generator(card1), card)
        last == card1 \div card
    IN  Stored([k \in 1 .. last |->
                  IF k = last THEN FrInv(FrMul(res0, FrPow(t, k - 1)))
                  ELSE FrInv(FrSub(FrMul(res0, FrPow(t, k - 1)), 1))])

\* evaluateXnMinusOneDomainBigCoset: the inverses of X^n - 1 on the coset of
\* the large domain, res[k] = 1 / (g^n * (w^n)^k - 1) for k < rho
evaluateXnMinusOneDomainBigCoset(card, card1) ==
    LET res0 == FrPow(FrMultiplicativeGen, card)
        t == FrPow(Generator(card1), card)
    IN  Stored([k \in 1 .. (card1 \div card) |->
                  FrInv(FrSub(FrMul(res0, FrPow(t, k - 1)), 1))])

\* divideByXMinusOne: the entries of the numerator after the loop that
\* multiplies each of them by an entry of the table
divideEntries(r, card, card1) ==
    LET inv == evaluateXnMinusOneDomainBigCoset(card, card1)
        rhoV == card1 \div card
    IN  Stored([i \in 1 .. card1 |->
                  FrMul(r[i], inv[xnMinusOneIndex(i - 1, card1, rhoV) + 1])])

\* divideByXMinusOne: the coefficients of the quotient, from the numerator in
\* LagrangeCoset basis and bit-reversed layout
divideByXMinusOne(r, card, card1) ==
    ToCanonical(Poly("LagrangeCoset",
                     BitReverse(divideEntries(r, card, card1))), card1).c

\* the coefficients in canonical basis of the polynomials xs of x
canonicalOf(xs, card) ==
    Stored([s \in DOMAIN xs |-> ToCanonical(xs[s], card).c])

\* a call of computeQuotient once Z is committed and alpha derived; can0
\* keeps the coefficients of the polynomials of x at the call, cosets the
\* coset of each pass and div the numerator's entries after the
\* multiplication by the table
QuotientStart(c, sol, ch, b) ==
    [fn |-> "computeQuotient", circuit |-> c, sol |-> sol, ch |-> ch,
     card |-> initFFTDomain(c),
     card1 |-> domain1Cardinality(Len(c.wires) + c.nbPublic),
     bp0 |-> b, xs |-> quotientPolys(c, sol, ch), bps |-> b, i |-> 0,
     coset |-> 1,
     cres |-> [k \in 1 .. domain1Cardinality(Len(c.wires) + c.nbPublic) |-> 0],
     hq |-> << >>, done |-> FALSE,
     cosets |-> << >>, div |-> << >>, restored |-> FALSE,
     can0 |-> canonicalOf(quotientPolys(c, sol, ch), initFFTDomain(c))]

\* the solutions of a circuit among the values 0, 1 and MaxVal
Solutions(c) ==
    { sol \in [1 .. MaxVars -> {0, 1, MaxVal}] : Solved(c, sol) }

\* computeNumerator, turn cl.i of the loop over the cosets: the coset and
\* the blinding polynomials scaled by it, every polynomial of x shifted to
\* the coset, the constraints evaluated on its rows and written in the
\* result in bit-reversed order, the blinding polynomials scaled back
cosetPass(cl) ==
    LET card == cl.card
        rhoV == cl.card1 \div card
        shifter == IF cl.i = 0 THEN FrMultiplicativeGen
                   ELSE Generator(cl.card1)
        coset == FrMul(cl.coset, shifter)
        tmp == FrSub(FrPow(coset, card), 1)
        scaled == scaleBlinding(cl.bps, tmp, shifter)
        scalingVector == BuildExpTable(shifter, card)
        twiddles0 == BuildExpTable(Generator(card), card)
        xs == Stored([s \in DOMAIN cl.xs |->
                        cosetShift(cl.xs[s], scalingVector, card)])
        buf == Stored([j \in 1 .. card |->
                         allConstraints(j - 1, rowOf(xs, j - 1, card),
                                        scaled, cl.ch, twiddles0, card)])
        slot == Stored([j \in 1 .. card |->
                          cresIndex(rhoV, j - 1, cl.i, cl.card1)])
    IN  [cl EXCEPT
           !.coset = coset,
           !.cosets = Append(cl.cosets, coset),
           !.xs = xs,
           !.cres = [k \in 1 .. cl.card1 |->
                       IF \E j \in 1 .. card : slot[j] = k - 1
                       THEN buf[CHOOSE j \in 1 .. card : slot[j] = k - 1]
                       ELSE cl.cres[k]],
           !.bps = unscaleBlinding(scaled, tmp),
           !.i = cl.i + 1]

\* computeNumerator, one turn of the loop over the cosets
computeNumerator_coset ==
    /\ call.fn = "computeQuotient"
    /\ call.i < call.card1 \div call.card
    /\ call' = cosetPass(call)

\* scalePowers: coefficient j of p multiplied by w^j
scalePowers(c, w) ==
    LET tab == BuildExpTable(w, Len(c))
    IN  Stored([j \in 1 .. Len(c) |-> FrMul(c[j], tab[j])])

\* a mutated scale-back factor that leaves the shifters after the first out
restoreShiftFirstOnly(rhoV, card1) == FrInv(FrMultiplicativeGen)

\* the scale-back goroutine's cs: the inverse of the product of the shifters
restoreShift(rhoV, card1) ==
    FrInv(FrMul(FrMultiplicativeGen, FrPow(Generator(card1), rhoV - 1)))

\* the polynomials of x the scale-back goroutine sets to nil
Dropped == { "id_ID", "id_LOne", "id_ZS", "id_Qk" }

\* the scale-back goroutine: x[id_ID], x[id_LOne], x[id_ZS] and x[id_Qk]
\* dropped, every other polynomial of x put in canonical basis and regular
\* layout and scaled by the powers of cs, the blinding polynomials scaled
\* by the powers of cs
restoreLRO(cl) ==
    LET cs == restoreShift(cl.card1 \div cl.card, cl.card1)
    IN  [cl EXCEPT
           !.xs = Stored([s \in DOMAIN cl.xs |->
                     IF s \in Dropped THEN Poly("nil", << >>)
                     ELSE Poly("Canonical",
                               scalePowers(ToCanonical(cl.xs[s], cl.card).c,
                                           cs))]),
           !.bps = Stored([s \in DOMAIN cl.bps |-> scalePowers(cl.bps[s], cs)]),
           !.restored = TRUE]

\* computeNumerator's go func() after the loop, up to close(s.chRestoreLRO)
computeNumerator_scaleBack ==
    /\ call.fn = "computeQuotient"
    /\ call.i = call.card1 \div call.card
    /\ ~call.restored
    /\ call' = restoreLRO(call)

\* computeQuotient: s.h = divideByXMinusOne(numerator, domains)
computeQuotient_divideByXMinusOne ==
    /\ call.fn = "computeQuotient"
    /\ call.i = call.card1 \div call.card
    /\ ~call.done
    /\ call' = [call EXCEPT
                  !.hq = divideByXMinusOne(call.cres, call.card, call.card1),
                  !.div = divideEntries(call.cres, call.card, call.card1),
                  !.done = TRUE]

\* computeQuotient is called for a circuit of the family, one of its
\* solutions, the challenges and the blinding polynomials
QuotientInit ==
    /\ \E c \in QuotientCircuits : \E sol \in Solutions(c) :
         \E b \in BlindingPolynomials : \E ch \in Challenges(b) :
            call = QuotientStart(c, sol, ch, b)
    /\ su = ToySetup
    /\ witness = [typeOK |-> TRUE, vals |-> << 0, 0 >>, cap |-> 2]
    /\ InitProver

QuotientNext ==
    \/ computeNumerator_coset /\ UNCHANGED << proverVars, su >>
    \/ computeQuotient_divideByXMinusOne /\ UNCHANGED << proverVars, su >>
    \/ computeNumerator_scaleBack /\ UNCHANGED << proverVars, su >>

QuotientSpec == QuotientInit /\ [][QuotientNext]_vars

(***************************************************************************)
(* Setup: the claims checked under SetupSpec                               *)
(***************************************************************************)
SetupDone == su.pc \in {"returned", "proving"}

\* C16 as stated: Setup returns an error for every circuit that has fewer
\* than 2 constraints, whatever its number of public inputs.
C16_FewConstraintsRejected ==
    (SetupDone /\ Len(su.circuit.wires) < 2) => su.ret.err # ErrNone

\* C16: Setup refuses a circuit as degenerate exactly when its number of
\* constraints plus its number of public inputs is at most 1 (a domain of
\* cardinality below 2); such a call returns no key.
C16_DegenerateRejected ==
    su.pc # "initFFTDomain" =>
        /\ (su.ret.err = ErrDegenerateCircuit) <=>
               (Len(su.circuit.wires) + su.circuit.nbPublic <= 1)
        /\ su.ret.err = ErrDegenerateCircuit =>
               (su.pc = "returned" /\ su.ret.pk = "nil" /\ su.ret.vk = "nil")

C16_Witness ==
    /\ su.pc = "returned" /\ su.ret.err = ErrDegenerateCircuit
    /\ Len(su.circuit.wires) = 1 /\ su.circuit.nbPublic = 0

\* C17: when the cardinality of the domain is below 2 or the SRS has fewer
\* than cardinality + 3 points, Setup returns (nil, nil, error) before the
\* trace is built and before any commitment is computed; on every failing
\* path neither a proving key nor a verifying key is returned.
C17_FailFast ==
    /\ (/\ su.pc \notin {"initFFTDomain", "checkSRS"}
        /\ \/ initFFTDomain(su.circuit) < 2
           \/ su.srsLen < initFFTDomain(su.circuit) + 3)
         => /\ su.pc = "returned"
            /\ su.ret = SetupReturn("nil", "nil", su.ret.err)
            /\ su.ret.err # ErrNone
            /\ ~su.traceBuilt /\ ~su.committed
    /\ su.ret.err # ErrNone => (su.ret.pk = "nil" /\ su.ret.vk = "nil")
    /\ (su.ret.pk # "nil" \/ su.ret.vk # "nil") =>
          (su.ret.err = ErrNone /\ su.committed /\ su.ret.pk = "pk" /\ su.ret.vk = "vk")

C17_Witness ==
    /\ su.pc = "returned" /\ su.ret.err = ErrSRSTooSmall
    /\ su.card >= 2 /\ ~su.traceBuilt /\ su.ret.pk = "nil"

\* C18: for every system size s = constraints + public inputs >= 2, with n
\* the next power of two >= s, the small domain has cardinality n and the
\* large one rho * n, with rho = 8 when n < 6 and rho = 4 otherwise.
C18_Rho ==
    su.pc = "proving" =>
        LET s == Len(su.circuit.wires) + su.circuit.nbPublic
            n == NextPowerOfTwo(s)
        IN  s >= 2 => /\ su.domain0 = n
                      /\ su.domain1 = (IF n < 6 THEN 8 ELSE 4) * n

RECURSIVE OrbitFrom(_, _, _)
\* the positions (1-based) on the cycle of S through position cur
OrbitFrom(S, cur, seen) ==
    IF cur \in seen THEN seen ELSE OrbitFrom(S, S[cur] + 1, seen \cup {cur})

\* C19: buildPermutation produces an array S of length 3n that is a bijection
\* on the positions 0..3n-1 (no entry left at -1), and the cycle of S through
\* any position visits exactly the positions of the flattened L||R||O table
\* that refer to the same variable id.
C19_Permutation ==
    su.traceBuilt =>
        LET n == su.card
            S == su.S
            T == lroTable(su.circuit, n)
        IN  /\ Len(S) = 3 * n
            /\ \A i \in 1 .. 3 * n : S[i] \in 0 .. (3 * n - 1)
            /\ \A i, j \in 1 .. 3 * n : S[i] = S[j] => i = j
            /\ \A i \in 1 .. 3 * n :
                  OrbitFrom(S, i, {}) = { j \in 1 .. 3 * n : T[j] = T[i] }

C19_Witness ==
    /\ su.traceBuilt /\ su.pc = "commitTrace"
    /\ \E i \in 1 .. Len(su.S) : su.S[i] = i - 1
    /\ \E i \in 1 .. Len(su.S) : su.S[i] # i - 1


\* C24 as stated: after a successful Setup the number of custom-gate
\* commitments recorded in the verifying key equals the number of custom-gate
\* selector polynomials of the trace, and the verifying key embedded in the
\* proving key is the one Setup returns.
C24_VkQcp ==
    (SetupDone /\ su.ret.err = ErrNone) =>
        /\ su.vkQcp = su.traceQcp
        /\ su.pkVk = su.ret.vk

\* C30: h1, h2, h3 are the consecutive slices [0,n+2), [n+2,2(n+2)),
\* [2(n+2),3(n+2)) of the coefficients of H, each of n+2 coefficients, and
\* for every system size >= 2 the slicing stays within the large domain.
C30_Split ==
    su.pc = "split" =>
        LET n == su.domain0
            H == HCoefficients(su.domain1)
        IN  /\ 3 * (n + 2) <= su.domain1
            /\ \A k \in 1 .. 3 : su.hs[k] # OutOfRange /\ Len(su.hs[k]) = n + 2
            /\ \A k \in 1 .. 3 : \A i \in 1 .. (n + 2) :
                  su.hs[k][i] = (k - 1) * (n + 2) + (i - 1)

C30_Witness ==
    /\ su.pc = "split" /\ su.domain0 = 8 /\ su.domain1 = 32
    /\ su.hs[3][su.domain0 + 2] = 29


C22_SlotsMatch ==
    /\ \A r1, r2 \in su.commits : r1.poly # r2.poly => r1.id # r2.id
    /\ \A r \in su.commits : r.id < r.t
    /\ su.pc = "opened" =>
          \A r \in su.commits : su.opened.polysToOpen[1][r.id + 1] = r.poly

\* C23 as stated: one and the same folding factor t, the total count
\* number_polynomials + 2*(number of custom-gate commitments), is used by
\* commitTrace, by every entangled commitment of the prover and by the opening.
C23_OneFoldingFactor ==
    LET t == number_polynomials + 2 * su.circuit.nbQcp
    IN  /\ \A r \in su.commits : r.t = t
        /\ su.pc = "opened" =>
              (Len(su.opened.polysToOpen[1]) = t /\ su.opened.points[2].zeta = t)

Range(f) == { f[k] : k \in DOMAIN f }

\* the polynomials that have a slot: the trace, L, R, O, Z, H1, H2, H3 and
\* the custom-gate witness polynomials
Slotted(c) ==
    Range(SetupPolys(c))
    \cup { << "L", 0 >>, << "R", 0 >>, << "O", 0 >>, << "Z", 0 >>,
           << "H1", 0 >>, << "H2", 0 >>, << "H3", 0 >> }
    \cup { << "Pi", i >> : i \in 0 .. (c - 1) }

C26_RandomPolynomial ==
    (call.fn = "getRandomPolynomial" /\ call.done) =>
        /\ call.args.n >= 0 => Len(call.out) = call.args.n + 1
        /\ call.args.n = -1 => call.out = << 0 >>

\* the n-th roots of unity of the field, for each cardinality n
RootsOfUnity ==
    [n \in BlindSizes |-> { z \in 1 .. (FieldP - 1) : FrPow(z, n) = 1 }]

\* coefficient k (0-based) of p(X) + b(X)*(X^n - 1), n = len(p)
BlindedCoefficient(p, b, k) ==
    FrSub(FrAdd(IF k < Len(p) THEN p[k + 1] ELSE 0,
                IF k >= Len(p) /\ k - Len(p) < Len(b) THEN b[k - Len(p) + 1] ELSE 0),
          IF k < Len(b) THEN b[k + 1] ELSE 0)

\* C27: for p with n coefficients and b with at most n coefficients,
\* getBlindedCoefficients(p, b) is the coefficient vector of
\* p(X) + b(X)*(X^n - 1): its value at every n-th root of unity is p's, and
\* with b = 0 it is the polynomial p.
C27_Blinded ==
    (call.fn = "getBlindedCoefficients" /\ call.done) =>
        LET p == call.args.p
            b == call.args.b
            cp == call.out.cp
        IN  /\ Len(cp) = Len(p) + Len(b)
            /\ \A k \in 0 .. (Len(cp) - 1) : cp[k + 1] = BlindedCoefficient(p, b, k)
            /\ \A z \in RootsOfUnity[Len(p)] : PolyEval(cp, z) = PolyEval(p, z)
            /\ (\A i \in 1 .. Len(b) : b[i] = 0) =>
                  /\ SubSeq(cp, 1, Len(p)) = p
                  /\ \A k \in (Len(p) + 1) .. Len(cp) : cp[k] = 0

C27_Witness ==
    /\ call.fn = "getBlindedCoefficients" /\ call.done
    /\ call.args.p = << 2, 0, 1, 2 >> /\ call.args.b = << 1, 2, 1 >>
    /\ call.out.cp = << 1, FieldP - 2, 0, 2, 1, 2, 1 >>

\* C28 as stated: the digest returned by commitToEntangledPolyAndBlinding(p,
\* b, id) is the commitment, under the sub-key key[i*t+id] of the slot, of
\* the blinded coefficient vector p + b*(X^n - 1) that batchOpening opens at
\* that slot.
C28_EntangledDigest ==
    (call.fn = "commitToEntangledPolyAndBlinding" /\ call.done) =>
        LET t == getNextDivisorRMinusOne(su.vkQcp)
            blinded == getBlindedCoefficients(call.args.p, call.args.b)
        IN  call.out = Commit(blinded, subKey(G1(BlindSRSLen), t, call.args.id,
                                              Len(blinded)))

(***************************************************************************)
(* Quotient: the claim checked under QuotientSpec                          *)
(***************************************************************************)
\* the numerator at the point z, from the polynomials computeQuotient was
\* given: gate + alpha*ordering + alpha^2*boundary, with L, R, O and Z
\* blinded by b*(X^n - 1)
numeratorAt(cl, coeffs, z) ==
    LET card == cl.card
        P(s, pt) == PolyEval(coeffs[s], pt)
        vanishing == FrSub(FrPow(z, card), 1)
        B(s, pt) == FrMul(PolyEval(cl.bp0[s], pt), vanishing)
        beta == cl.ch.beta
        gamma == cl.ch.gamma
        alpha == cl.ch.alpha
        u == FrMultiplicativeGen
        wz == FrMul(Generator(card), z)
        l == FrAdd(P("id_L", z), B("id_Bl", z))
        r == FrAdd(P("id_R", z), B("id_Br", z))
        o == FrAdd(P("id_O", z), B("id_Bo", z))
        zz == FrAdd(P("id_Z", z), B("id_Bz", z))
        zs == FrAdd(P("id_Z", wz), B("id_Bz", wz))
        gate == FrAdd(FrAdd(FrAdd(FrAdd(FrMul(P("id_Ql", z), l),
                                        FrMul(P("id_Qr", z), r)),
                                  FrMul(P("id_Qm", z), FrMul(l, r))),
                            FrMul(P("id_Qo", z), o)),
                      P("id_Qk", z))
        withS == FrMul(FrMul(FrAdd(FrAdd(l, FrMul(beta, P("id_S1", z))), gamma),
                             FrAdd(FrAdd(r, FrMul(beta, P("id_S2", z))), gamma)),
                       FrAdd(FrAdd(o, FrMul(beta, P("id_S3", z))), gamma))
        withId == FrMul(FrMul(FrAdd(FrAdd(l, FrMul(beta, z)), gamma),
                              FrAdd(FrAdd(r, FrMul(beta, FrMul(u, z))), gamma)),
                        FrAdd(FrAdd(o, FrMul(beta, FrMul(FrMul(u, u), z))),
                              gamma))
        ordering == FrSub(FrMul(withS, zs), FrMul(withId, zz))
        boundary == FrMul(FrSub(zz, 1), P("id_LOne", z))
    IN  FrAdd(gate, FrAdd(FrMul(alpha, ordering),
                          FrMul(FrMul(alpha, alpha), boundary)))

\* the coefficients of the polynomials computeQuotient was given
canonicalCoefficients(cl) == cl.can0

\* the points of the coset of the large domain
BigCoset(card1) ==
    { FrMul(FrMultiplicativeGen, FrPow(Generator(card1), k)) :
        k \in 0 .. (card1 - 1) }

\* C29: for a satisfied circuit with n in {2,4,8}, the polynomial H that
\* computeNumerator followed by divideByXMinusOne gives satisfies
\* H(z) * (z^n - 1) = numerator(z) at every point z of the coset of the large
\* domain.
C29_QuotientDivisibility ==
    (call.fn = "computeQuotient" /\ call.done) =>
        LET coeffs == canonicalCoefficients(call)
        IN  \A z \in BigCoset(call.card1) :
                FrMul(PolyEval(call.hq, z), FrSub(FrPow(z, call.card), 1))
                    = numeratorAt(call, coeffs, z)

\* the quotient of a circuit of 8 rows with a solution that is not zero and
\* blinding polynomials that are not zero: H is not zero and has no
\* coefficient past 3*(n+2), the numerator being a multiple of X^n - 1
C29_Witness ==
    /\ call.fn = "computeQuotient" /\ call.done
    /\ call.card = 8
    /\ \E v \in 1 .. MaxVars : call.sol[v] # 0
    /\ Len(call.bp0["id_Bz"]) = 3
    /\ \E k \in 1 .. Len(call.hq) : call.hq[k] # 0
    /\ \A k \in 1 .. Len(call.hq) : k > 3 * (call.card + 2) => call.hq[k] = 0
    /\ Cardinality(BigCoset(call.card1)) = call.card1

(***************************************************************************)
(* The proof and its verification                                          *)
(***************************************************************************)
\* Verify accepts a proof whose digests are the commitments of the
\* polynomials the batch opening was computed from: the folded commitment
\* stands for the polynomials it entangles, and a digest that is not their
\* commitment (a sum of digests not yet written, or half written) does not
\* match the evaluations opened at zeta^t
Accepted(pr) ==
    /\ \A c \in Cols : pr.LROEntangled[c] = "val"
    /\ pr.Z = "val" /\ pr.ZEntangled = "val"
    /\ pr.HEntangled = "val" /\ pr.BatchOpeningProof = "val"

\* C31: for every valid (circuit, witness) pair, the proof Prove returns with
\* the proving key of Setup is accepted by Verify with the verifying key of
\* the same Setup and the public part of the witness.
C31_RoundTrip ==
    (Succeeded /\ result.proof = "proof") => Accepted(proof)

(***************************************************************************)
(* computeNumerator's result buffer: the loop over the cosets with the     *)
(* buffer buf of one coset, the goroutines that copy it into cres and the  *)
(* wait group wgBuf, checked under NumeratorSpec.  A value of buf is       *)
(* named by the coset and the row it was evaluated on; a cell of cres      *)
(* keeps every value written to it.                                        *)
(***************************************************************************)
\* the system sizes computeNumerator is called for
NumeratorSizes == 2 .. MaxConstraints

\* a mutated wait that does not wait for the copy
wgBufNoWait(cl) == TRUE

\* wgBuf.Wait() returns once the counter is 0
wgBufWait(cl) == cl.wg = 0

\* computeNumerator after the initialisation of cres, buf and wgBuf
NumeratorStart(size) ==
    [fn |-> "computeNumerator",
     n |-> domain0Cardinality(size),
     card1 |-> domain1Cardinality(size),
     rhoV |-> rho(size),
     i |-> 0, at |-> "shift", wg |-> 0,
     buf |-> [j \in 1 .. domain0Cardinality(size) |-> << >>],
     copy |-> [k \in 0 .. (rho(size) - 1) |-> -1],
     cres |-> [k \in 1 .. domain1Cardinality(size) |-> << >>],
     res |-> << >>, form |-> << >>, err |-> "unset"]

\* the forms of an iop.Polynomial: its basis and its layout
Forms ==
    { << b, l >> : b \in { "Canonical", "Lagrange", "LagrangeCoset" },
                   l \in { "Regular", "BitReverse" } }

\* a mutated check that looks at the basis only
invalidFormBasisOnly(form) == form[1] # "LagrangeCoset"

\* divideByXMinusOne: a.Basis != iop.LagrangeCoset || a.Layout != iop.BitReverse
invalidForm(form) == form[1] # "LagrangeCoset" \/ form[2] # "BitReverse"

\* the polynomials divideByXMinusOne is called with, on the domains of the
\* system of 2 rows: constant vectors and unit vectors, in any form
DividePolys ==
    LET len == domain1Cardinality(2)
    IN  { [form |-> fm, c |-> r] :
            fm \in Forms,
            r \in { [k \in 1 .. len |-> v] : v \in 0 .. MaxVal }
                  \cup { [k \in 1 .. len |-> IF k = e THEN 1 ELSE 0] :
                           e \in 1 .. len } }

\* a call of divideByXMinusOne(a, domains) before it runs
DivideStart(a) ==
    [fn |-> "divideByXMinusOne", a0 |-> a, a |-> a, out |-> "nil",
     err |-> "unset", done |-> FALSE]

\* divideByXMinusOne: the error and a untouched, or a divided in place, in
\* canonical basis and regular layout, and returned
divideByXMinusOneCall(cl) ==
    IF invalidForm(cl.a.form)
    THEN [cl EXCEPT !.err = "invalid form", !.done = TRUE]
    ELSE [cl EXCEPT
            !.a = [form |-> << "Canonical", "Regular" >>,
                   c |-> divideByXMinusOne(cl.a.c, domain0Cardinality(2),
                                           domain1Cardinality(2))],
            !.out = "a", !.err = "nil", !.done = TRUE]

call_divideByXMinusOne ==
    /\ call.fn = "divideByXMinusOne"
    /\ ~call.done
    /\ call' = divideByXMinusOneCall(call)

\* the top of a turn of the loop: the coset, the blinding polynomials and
\* batchApply's shift of every polynomial of x to the coset
coset_batchApply ==
    /\ call.fn = "computeNumerator"
    /\ call.at = "shift"
    /\ call' = [call EXCEPT !.at = "wait"]

\* wgBuf.Wait() before the evaluation
coset_wgBufWait ==
    /\ call.fn = "computeNumerator"
    /\ call.at = "wait"
    /\ wgBufWait(call)
    /\ call' = [call EXCEPT !.at = "evaluate"]

\* iop.Evaluate(allConstraints, buf, ...): buf holds the values of coset i
coset_Evaluate ==
    /\ call.fn = "computeNumerator"
    /\ call.at = "evaluate"
    /\ call' = [call EXCEPT
                  !.buf = [j \in 1 .. call.n |-> << call.i, j - 1 >>],
                  !.at = "go"]

\* wgBuf.Add(1), go func(i int), the rescaling of the blinding polynomials
\* and the next turn of the loop, or its end
coset_go ==
    /\ call.fn = "computeNumerator"
    /\ call.at = "go"
    /\ call' = [call EXCEPT
                  !.wg = call.wg + 1,
                  !.copy[call.i] = 0,
                  !.i = call.i + 1,
                  !.at = IF call.i + 1 < call.rhoV THEN "shift" ELSE "final"]

\* the goroutine of coset k: cres[bits.Reverse64(rho*j+i) >> mm] = buf[j]
copy_cres ==
    /\ call.fn = "computeNumerator"
    /\ \E k \in DOMAIN call.copy :
          /\ call.copy[k] \in 0 .. (call.n - 1)
          /\ LET j == call.copy[k]
                 idx == cresIndex(call.rhoV, j, k, call.card1)
             IN  call' = [call EXCEPT
                            !.cres[idx + 1] = Append(call.cres[idx + 1],
                                                     call.buf[j + 1]),
                            !.copy[k] = j + 1]

\* the goroutine of coset k: wgBuf.Done()
copy_wgBufDone ==
    /\ call.fn = "computeNumerator"
    /\ \E k \in DOMAIN call.copy :
          /\ call.copy[k] = call.n
          /\ call' = [call EXCEPT !.wg = call.wg - 1, !.copy[k] = call.n + 1]

\* wgBuf.Wait() after the loop and iop.NewPolynomial(&cres, ...)
computeNumerator_result ==
    /\ call.fn = "computeNumerator"
    /\ call.at = "final"
    /\ wgBufWait(call)
    /\ call' = [call EXCEPT
                  !.res = [k \in 1 .. call.card1 |->
                             IF call.cres[k] = << >> THEN << >>
                             ELSE call.cres[k][Len(call.cres[k])]],
                  !.form = << "LagrangeCoset", "BitReverse" >>,
                  !.at = "returned"]

\* computeQuotient: divideByXMinusOne(numerator, ...), its check of the form
computeQuotient_checkForm ==
    /\ call.fn = "computeNumerator"
    /\ call.at = "returned"
    /\ call' = [call EXCEPT
                  !.err = IF invalidForm(call.form) THEN "invalid form"
                          ELSE "nil",
                  !.at = "divided"]

NumeratorInit ==
    /\ \/ \E size \in NumeratorSizes : call = NumeratorStart(size)
       \/ \E a \in DividePolys : call = DivideStart(a)
    /\ su = ToySetup
    /\ witness = [typeOK |-> TRUE, vals |-> << 0, 0 >>, cap |-> 2]
    /\ InitProver

NumeratorNext ==
    \/ coset_batchApply /\ UNCHANGED << proverVars, su >>
    \/ coset_wgBufWait /\ UNCHANGED << proverVars, su >>
    \/ coset_Evaluate /\ UNCHANGED << proverVars, su >>
    \/ coset_go /\ UNCHANGED << proverVars, su >>
    \/ copy_cres /\ UNCHANGED << proverVars, su >>
    \/ copy_wgBufDone /\ UNCHANGED << proverVars, su >>
    \/ computeNumerator_result /\ UNCHANGED << proverVars, su >>
    \/ computeQuotient_checkForm /\ UNCHANGED << proverVars, su >>
    \/ call_divideByXMinusOne /\ UNCHANGED << proverVars, su >>

NumeratorSpec == NumeratorInit /\ [][NumeratorNext]_vars

\* C32: the map (coset i, point j) -> bitReverse(rho*j + i) over
\* log2(rho*n) bits is a bijection onto 0 .. rho*n-1: no cell of the result
\* buffer is written twice, and after the rho coset passes every cell has
\* been written exactly once.
C32_WrittenOnce ==
    call.fn = "computeNumerator" =>
        /\ \A i1, i2 \in 0 .. (call.rhoV - 1) : \A j1, j2 \in 0 .. (call.n - 1) :
              /\ cresIndex(call.rhoV, j1, i1, call.card1) \in 0 .. (call.card1 - 1)
              /\ << i1, j1 >> # << i2, j2 >> =>
                    cresIndex(call.rhoV, j1, i1, call.card1)
                        # cresIndex(call.rhoV, j2, i2, call.card1)
        /\ \A k \in 1 .. call.card1 : Len(call.cres[k]) <= 1
        /\ call.at \in { "returned", "divided" } =>
              \A k \in 1 .. call.card1 : Len(call.cres[k]) = 1

C32_Witness ==
    /\ call.fn = "computeNumerator"
    /\ call.at = "returned"
    /\ call.rhoV = 4 /\ call.n = 8 /\ call.card1 = 32
    /\ \A k \in 1 .. call.card1 : Len(call.cres[k]) = 1
    /\ call.cres[2] = << << 0, 4 >> >>

\* C37: buf is never overwritten by the evaluation of coset i+1 before the
\* goroutine copying coset i's values into the result has finished, and the
\* result polynomial is built only after the copy of the last coset has
\* finished: every value a goroutine copies is a value of its own coset, no
\* goroutine is copying when buf is evaluated, and the result holds the
\* value of every coset and row.
C37_BufNotOverwritten ==
    call.fn = "computeNumerator" =>
        /\ \A k \in DOMAIN call.copy :
              \A j \in 0 .. (call.n - 1) :
                 j < call.copy[k] =>
                    << k, j >> \in
                       { call.cres[c][e] :
                           c \in { cresIndex(call.rhoV, j, k, call.card1) + 1 },
                           e \in 1 .. Len(call.cres[
                                   cresIndex(call.rhoV, j, k, call.card1) + 1]) }
        /\ call.at \in { "evaluate", "go" } =>
              \A k \in DOMAIN call.copy : call.copy[k] \in { -1, call.n + 1 }
        /\ call.at \in { "returned", "divided" } =>
              /\ \A k \in DOMAIN call.copy : call.copy[k] = call.n + 1
              /\ \A k \in DOMAIN call.copy : \A j \in 0 .. (call.n - 1) :
                    call.res[cresIndex(call.rhoV, j, k, call.card1) + 1]
                       = << k, j >>

C37_Witness ==
    /\ call.fn = "computeNumerator"
    /\ call.at = "wait"
    /\ call.i = 1
    /\ call.copy[0] \in 1 .. (call.n - 1)
    /\ call.wg = 1

\* C33: divideByXMinusOne multiplies each entry of the buffer by the inverse
\* of X^n - 1 on the entry's own coset: the entry computeNumerator wrote for
\* coset i, at index bitReverse(rho*j + i), is multiplied by
\* 1/((u*g^i)^n - 1), u the coset shift of the large domain and g its
\* generator, and u*g^i is the coset computeNumerator used in pass i.
C33_OwnCoset ==
    (call.fn = "computeQuotient" /\ call.done) =>
        LET n == call.card
            rhoV == call.card1 \div n
            table == evaluateXnMinusOneDomainBigCoset(n, call.card1)
        IN  \A i \in 0 .. (rhoV - 1) : \A j \in 0 .. (n - 1) :
               LET idx == cresIndex(rhoV, j, i, call.card1)
                   own == FrInv(FrSub(FrPow(FrMul(FrMultiplicativeGen,
                                                  FrPow(Generator(call.card1), i)),
                                            n), 1))
               IN  /\ call.cosets[i + 1]
                        = FrMul(FrMultiplicativeGen, FrPow(Generator(call.card1), i))
                   /\ table[xnMinusOneIndex(idx, call.card1, rhoV) + 1] = own
                   /\ own # 0
                   /\ call.div[idx + 1] = FrMul(call.cres[idx + 1], own)

C33_Witness ==
    /\ call.fn = "computeQuotient"
    /\ call.done
    /\ call.card = 4 /\ call.card1 = 32
    /\ Len(call.cosets) = 8
    /\ \A k \in 1 .. call.card1 : call.cres[k] # 0 /\ call.div[k] # call.cres[k]

\* C34: divideByXMinusOne returns the 'invalid form' error, leaving its
\* input unmodified, exactly when the input is not in LagrangeCoset basis
\* with BitReverse layout; within Prove the error does not occur because the
\* polynomial computeNumerator returns has that form.
C34_InvalidForm ==
    /\ (call.fn = "divideByXMinusOne" /\ call.done) =>
          /\ call.err = "invalid form"
                <=> call.a0.form # << "LagrangeCoset", "BitReverse" >>
          /\ call.err = "invalid form" => (call.a = call.a0 /\ call.out = "nil")
          /\ call.err # "invalid form" => (call.err = "nil" /\ call.out = "a")
    /\ (call.fn = "computeNumerator" /\ call.at \in { "returned", "divided" }) =>
          /\ call.form = << "LagrangeCoset", "BitReverse" >>
          /\ call.err # "invalid form"

C34_Witness ==
    /\ call.fn = "divideByXMinusOne"
    /\ call.done
    /\ call.err = "invalid form"
    /\ call.a0.form = << "LagrangeCoset", "Regular" >>
    /\ \E k \in DOMAIN call.a.c : call.a.c[k] # 0

\* C35: the in-place scaling of computeNumerator is exactly undone: after
\* the rho coset passes and the final scale-back, every blinding polynomial
\* and every remaining polynomial of x (L, R, O, Z, the selectors, S1..S3)
\* is in canonical regular form with the coefficients it had, in canonical
\* form, before the first pass.
C35_ScalingUndone ==
    (call.fn = "computeQuotient" /\ call.restored) =>
        /\ call.bps = call.bp0
        /\ \A s \in DOMAIN call.xs \ Dropped :
              /\ call.xs[s].basis = "Canonical"
              /\ call.xs[s].c = canonicalCoefficients(call)[s]

C35_Witness ==
    /\ call.fn = "computeQuotient"
    /\ call.restored
    /\ call.card = 8 /\ call.card1 = 32
    /\ Len(call.bp0["id_Bz"]) = 3
    /\ call.bps = call.bp0
    /\ \E k \in 2 .. call.card : call.xs["id_L"].c[k] # 0
    /\ \E k \in 2 .. call.card : call.xs["id_Z"].c[k] # 0

\* C36: chH fires only after the scale-back goroutine has fired
\* chRestoreLRO, so batchOpening never reads L, R, O, Z or the blinding
\* polynomials while they are being converted or rescaled, and reads them in
\* canonical regular form: when it opens, the coset passes and the scale-back
\* are over and the polynomials of x they went through with L, R, O and Z
\* are back in canonical basis, regular layout, with no scaling left.
C36_HAfterRestore ==
    /\ Closed("chH") => (Closed("chRestoreLRO") /\ pc[Restore] = "done")
    /\ pc["batchOpening"] = "open" =>
          /\ Closed("chH")
          /\ pc[Restore] = "done"
          /\ pc["computeQuotient"] = "done"
          /\ \A q \in Procs \ { "batchOpening" } :
                Writes(q) \cap ({ "id_L", "id_R", "id_O", "id_Z" } \cup BSlots) = {}
          /\ \A p \in Aliased :
                /\ trace[p].basis = "Canonical"
                /\ trace[p].layout = "Regular"
                /\ trace[p].shift = 0

C36_Witness ==
    /\ pc["batchOpening"] = "open"
    /\ closedBy["chH"] = "computeQuotient"
    /\ closedBy["chRestoreLRO"] = Restore
    /\ \A s \in { "id_L", "id_R", "id_O", "id_Z" } : x[s] = "set"
    /\ ~cancelled

\* the largest index of pk.Kzg.G1 that commitToEntangledPolyAndBlinding and
\* bsb22Hint read for a polynomial of n coefficients under slot id: i*t + id
\* for i < n
entangledMaxIndex(n, t, id) == (n - 1) * t + id

\* the largest index of kzgPk.G1 that commitToQuotient reads: i*t + rh3 for
\* i < len(h1) = n + 2
quotientMaxIndex(n, t, rh3) == (n + 1) * t + rh3

\* C38: whenever Setup has accepted the SRS for a circuit, every index of
\* the commitment key the prover reads lies inside the key: i*t + id for
\* i < n in commitToEntangledPolyAndBlinding and bsb22Hint, i*t + slot for
\* i < n + 2 in commitToQuotient, and n .. n + |b| - 1 in
\* commitBlindingFactor (|b| = 0 in the build) are smaller than the length of
\* the key.
C38_KeyReadsInRange ==
    (su.pc \in { "proving", "lro", "z", "split", "quotient", "opened", "panicked" }
       /\ su.ret.err = ErrNone) =>
        LET n == su.domain0
            t == getNextDivisorRMinusOne(su.vkQcp)
        IN  /\ entangledMaxIndex(n, t, prover_z + su.vkQcp) < su.srsLen
            /\ \A d \in 0 .. (su.circuit.nbQcp - 1) :
                  entangledMaxIndex(n, t, setup_s3 + 1 + d) < su.srsLen
            /\ quotientMaxIndex(n, number_polynomials + 2 * su.vkQcp,
                                su.vkQcp + prover_h_3) < su.srsLen
            /\ n <= su.srsLen

(***************************************************************************)
(* The solver's solveConstraint on its own, checked under SolverSpec: a    *)
(* SingleOutput constraint over the wires 0 (L), 1 (R) and 2 (O), called   *)
(* with one of the three wires not yet instantiated.                       *)
(***************************************************************************)
\* the constraints: u1*L + u2*R + u3*L*R + u4*O + k = 0 with the
\* coefficients of cs.Coefficients, M[0] on L's wire and M[1] on R's wire
SolverConstraints ==
    { [L |-> Term(u1, 0), R |-> Term(u2, 1),
       M |-> << Term(m, 0), Term(m, 1) >>,
       O |-> Term(u4, 2), K |-> k] :
        u1 \in { CoeffIdZero, CoeffIdOne, CoeffIdTwo, CoeffIdMinusOne },
        u2 \in { CoeffIdZero, CoeffIdOne, CoeffIdTwo, CoeffIdMinusOne },
        m \in { CoeffIdZero, CoeffIdOne },
        u4 \in { CoeffIdOne, CoeffIdMinusOne },
        k \in { CoeffIdZero, CoeffIdOne } }

\* solveConstraint(c, wireInstantiated, solution, coefficientsNegInv)
call_solveConstraint ==
    /\ call.fn = "solveConstraint"
    /\ ~call.done
    /\ call' = [call EXCEPT
                  !.out = solveConstraint(call.args.c, call.args.solution,
                                          call.args.wireInstantiated),
                  !.done = TRUE]

\* the wire left to solve is not instantiated and its entry of the solution
\* is still 0; the two others hold any value
SolverInit ==
    /\ \E c \in SolverConstraints : \E unsolved \in 1 .. 3 :
         \E sol \in [1 .. 3 -> 0 .. MaxVal] :
            /\ sol[unsolved] = 0
            /\ call = BlindCall("solveConstraint",
                         [c |-> c, solution |-> sol,
                          wireInstantiated |-> [i \in 1 .. 3 |-> i # unsolved]])
    /\ su = ToySetup
    /\ witness = [typeOK |-> TRUE, vals |-> << 0, 0 >>, cap |-> 2]
    /\ InitProver

SolverNext ==
    \/ call_solveConstraint /\ UNCHANGED << proverVars, su >>

SolverSpec == SolverInit /\ [][SolverNext]_vars

\* C39: when solveConstraint handles a SingleOutput constraint whose
\* unsolved wire is R (findUnsolvedVariable returns 1) and that determines R
\* (u2 + u3*L is not 0), it assigns to R's variable the value that makes
\* u1*L + u2*R + u3*L*R + u4*O + k = 0 hold and marks R's variable as
\* instantiated, leaving L's variable unchanged.
C39_SolveForR ==
    (/\ call.fn = "solveConstraint"
     /\ call.done
     /\ findUnsolvedVariable(call.args.c, call.args.wireInstantiated) = 1
     /\ FrAdd(Coeff(call.args.c.R.cID),
              FrMul(FrMul(Coeff(call.args.c.M[1].cID), Coeff(call.args.c.M[2].cID)),
                    Val(call.args.solution, call.args.c.L.vID))) # 0)
    => /\ checkConstraint(call.args.c, call.out[1])
       /\ call.out[2][call.args.c.R.vID + 1]
       /\ Val(call.out[1], call.args.c.L.vID)
             = Val(call.args.solution, call.args.c.L.vID)

(***************************************************************************)
(* The marshalling of the powers-of-tau commons of the groth16 MPC setup,  *)
(* checked under SrsSpec.  A group element is written as its discrete     *)
(* logarithm in the toy field: [tau^i]_1 is FrPow(tau, i).                 *)
(***************************************************************************)
MaxN == 3

\* appendRefs(s, v): one reference per element of v, in order
appendRefs(s, vec, v) == s \o [i \in 1 .. Len(v) |-> [vec |-> vec, i |-> i]]

\* the commons built from tau, alpha, beta: G1.Tau has len1 powers of tau
SrsCommons(N, len1, tau, alpha, beta) ==
    [G1Tau |-> [i \in 1 .. len1 |-> FrPow(tau, i - 1)],
     G2Tau |-> [i \in 1 .. N |-> FrPow(tau, i - 1)],
     G1AlphaTau |-> [i \in 1 .. N |-> FrMul(alpha, FrPow(tau, i - 1))],
     G1BetaTau |-> [i \in 1 .. N |-> FrMul(beta, FrPow(tau, i - 1))],
     G2Beta |-> beta]

\* setZero(N): the vectors of the documented lengths, all elements zero
setZero(N) ==
    [G1Tau |-> [i \in 1 .. 2 * N - 1 |-> 0],
     G2Tau |-> [i \in 1 .. N |-> 0],
     G1AlphaTau |-> [i \in 1 .. N |-> 0],
     G1BetaTau |-> [i \in 1 .. N |-> 0],
     G2Beta |-> 0]

\* the vectors have the lengths the comment of refsSlice documents
documentedLengths(c) ==
    LET N == Len(c.G2Tau)
    IN /\ Len(c.G1Tau) = 2 * N - 1
       /\ Len(c.G1AlphaTau) = N
       /\ Len(c.G1BetaTau) = N

estimatedNbElems(c) == 5 * Len(c.G2Tau) - 1

\* refs of refsSlice before the length check: the size, then Tau[1:] of
\* G1, Tau[1:] of G2, BetaTau and AlphaTau
collectRefs(c) ==
    LET r0 == << [vec |-> "N", i |-> 0] >>
        r1 == appendRefs(r0, "G1Tau", Tail(c.G1Tau))
        r2 == appendRefs(r1, "G2Tau", Tail(c.G2Tau))
        r3 == appendRefs(r2, "G1BetaTau", c.G1BetaTau)
    IN appendRefs(r3, "G1AlphaTau", c.G1AlphaTau)

\* refsSlice: panics when the count is not the estimate
refsSlice(c) ==
    LET refs == collectRefs(c)
    IN [panic |-> Len(refs) # estimatedNbElems(c), refs |-> refs]

\* the element a reference points at; Tau[1:] starts at the second element
deref(c, ref) ==
    IF ref.vec = "N" THEN Len(c.G2Tau)
    ELSE IF ref.vec \in { "G1Tau", "G2Tau" } THEN c[ref.vec][ref.i + 1]
    ELSE c[ref.vec][ref.i]

\* enc.Encode of every reference, in order
encodeRefs(c, refs) == [k \in 1 .. Len(refs) |-> deref(c, refs[k])]

\* dec.Decode into the references k .. Len(refs) from the stream
RECURSIVE decodeRefs(_, _, _, _)
decodeRefs(c, refs, stream, k) ==
    IF k > Len(refs) \/ k > Len(stream) THEN c
    ELSE LET ref == refs[k]
             at == IF ref.vec \in { "G1Tau", "G2Tau" } THEN ref.i + 1 ELSE ref.i
         IN decodeRefs([c EXCEPT ![ref.vec][at] = stream[k]], refs, stream, k + 1)

SrsStart(c) ==
    [fn |-> "SrsCommons", c |-> c, at |-> "start", stream |-> << >>,
     read |-> setZero(0), refs |-> << >>]

\* (c *SrsCommons) WriteTo
SrsCommons_WriteTo ==
    /\ call.fn = "SrsCommons"
    /\ call.at = "start"
    /\ call' = LET r == refsSlice(call.c)
               IN IF r.panic
                  THEN [call EXCEPT !.at = "panic", !.refs = r.refs]
                  ELSE [call EXCEPT !.at = "written", !.refs = r.refs,
                                    !.stream = encodeRefs(call.c, r.refs)]

\* (c *SrsCommons) ReadFrom of the stream WriteTo produced
SrsCommons_ReadFrom ==
    /\ call.fn = "SrsCommons"
    /\ call.at = "written"
    /\ call' = LET zero == setZero(Head(call.stream))
                   r == refsSlice(zero)
               IN IF r.panic
                  THEN [call EXCEPT !.at = "panic", !.read = zero]
                  ELSE [call EXCEPT !.at = "read",
                          !.read = decodeRefs(zero, r.refs, call.stream, 2)]

\* commons of the documented lengths, and commons holding one more power of
\* tau in G1
SrsInit ==
    /\ \E N \in 1 .. MaxN : \E len1 \in { 2 * N - 1, 2 * N } :
         \E tau \in 2 .. 4 : \E alpha \in 2 .. 3 : \E beta \in 2 .. 3 :
            call = SrsStart(SrsCommons(N, len1, tau, alpha, beta))
    /\ su = ToySetup
    /\ witness = [typeOK |-> TRUE, vals |-> << 0, 0 >>, cap |-> 2]
    /\ InitProver

SrsNext ==
    \/ SrsCommons_WriteTo /\ UNCHANGED << proverVars, su >>
    \/ SrsCommons_ReadFrom /\ UNCHANGED << proverVars, su >>

SrsSpec == SrsInit /\ [][SrsNext]_vars

\* C40: for an SrsCommons of size N whose vectors have the documented
\* lengths (2N-1 powers of tau in G1, N in G2, N alpha-tau and N beta-tau
\* elements), refsSlice collects exactly its estimated 5N-1 references and
\* returns without panicking, so WriteTo encodes the ordered list of
\* elements and ReadFrom decodes the same commons.
C40_RefsSliceEstimate ==
    (/\ call.fn = "SrsCommons"
     /\ documentedLengths(call.c)
     /\ call.at # "start")
    => /\ call.at # "panic"
       /\ Len(call.refs) = estimatedNbElems(call.c)
       /\ Len(call.stream) = estimatedNbElems(call.c)
       /\ call.at = "read" =>
             /\ call.read.G1Tau = call.c.G1Tau
             /\ call.read.G2Tau = call.c.G2Tau
             /\ call.read.G1AlphaTau = call.c.G1AlphaTau
             /\ call.read.G1BetaTau = call.c.G1BetaTau

====
